---- MODULE Spec2Model ----
(***************************************************************************)
(* Model of the SatMapModifier tile pipeline of Treee/PythonApps, and of    *)
(* the /chart handler of RecurringInvestmentStrategy/proxy/server.py:      *)
(*   image_slicer.py      (slice_image, main)                              *)
(*   auto_airbrush.py     (is_grayish_mask_bgr, refine_mask,               *)
(*                         compute_mean_green, process_image_file, main)   *)
(*   airbrush_cli.py      (run_single, run_all)                            *)
(*   _stitch_brushed.py   (find_images, parse_coords_from_name,            *)
(*                         arrange_by_coords, fallback_grid, stitch, main) *)
(* File names are sequences of one-character strings, so that formatting   *)
(* and parsing of names are computed character by character.               *)
(***************************************************************************)
EXTENDS Integers, Sequences, FiniteSets, TLC

VARIABLES
    \* ---- parse_coords_from_name applied to one name
    name,        \* the argument of parse_coords_from_name
    coords,      \* its return value: <<row, col>> or None
    ppc,         \* "start" before the call, "done" after it
    \* ---- the tile locator (find_images, arrange_by_coords, fallback_grid)
    listing,     \* the names of the files in the input directory
    caller,      \* "main": the stitch command; "api": the functions called in main's
                 \* order, stitch with arguments of the caller's choice;
                 \* "direct": fallback_grid called on a list; "roundtrip": slice, then
                 \* arrange_by_coords and stitch on the tiles written
    files,       \* the list of files handed to the locator
    layout,      \* NoLayout, or [mapping, min_x, min_y, max_x, max_y]
    strategy,    \* "none", "coords" (primary) or "grid" (fallback)
    lpc,         \* "start", "found", "located", "exit3"
    \* ---- slice_image
    src,         \* the source image file: [status, img]
    chunk_size,  \* the chunk_size argument
    row, col,    \* the loop variables of slice_image
    written,     \* the names of the files saved by slice_image, in order
    spc,         \* "start", "loop", "done", "open_failed", "raised"
    disk,        \* the image files of the output directory: name -> [status, img]
    \* ---- stitch
    opts,        \* what the caller chose: [tile_size_given, tile_size, background, out_bmp]
    st_call,     \* the arguments of stitch: [tile_size_given, tile_size, fill, out_bmp]
    tile_w, tile_h,
    canvas,      \* the image `stitched`: NoImage before Image.new
    st_i,        \* the index of the next entry of mapping.items()
    failed,      \* the files for which the warning was printed
    saved,       \* the image written to out_path: NoImage before the save
    st_pc,       \* "start", "paste", "save", "saved", "raised"
    \* ---- process_image_file of auto_airbrush.py on one tile
    ab_path,     \* the name of the input file
    ab_img,      \* what cv2.imread returned: a BGR image, NoImage for None
    ab_raw,      \* the mask of is_grayish_mask_bgr
    ab_mask,     \* the mask of refine_mask
    ab_ret,      \* the return value: "none" before the return, "True" or "False"
    ab_pc,       \* "start", "read", "classified", "refined", "done"
    save_debug,  \* the debug flag process_image_file is called with
    ab_green,    \* mean_green: (b, g, r)
    ab_filled,   \* inpainted: the tile filled under the mask
    ab_blended,  \* blended, before the smoothing pass
    \* ---- main of auto_airbrush.py
    bt_files,    \* the list `files` of main
    bt_i,        \* the index of the next file of the loop
    bt_log,      \* the names the loop printed "Failed" or "Error processing" for
    bt_run,      \* 1 in the first run of main over the directory, 2 in the second
    bt_first,    \* the names in the directory when the first run had ended
    bt_pc,       \* "start", "loop", "done", "exit"
    \* ---- the stitch command run again on the same directory
    run,         \* 1 in the first run, 2 in the second
    first_run,   \* [files, strategy, layout, saved] of the first run
    \* ---- the entry points called on a missing input
    entry,       \* the entry point called
    fs_input,    \* the input path: "missing", "file" or "dir"
    status,      \* what the caller gets: "none" before the return
    created,     \* the directories and files the call has created
    \* ---- the /chart handler of the proxy (server.py)
    px_args,     \* symbol, period1, period2 of the request: "None", "" or a value
    attempts,    \* attempts
    last_r,      \* last_r: the last upstream response, NoResponse for None
    px_sent,     \* the outcomes of the upstream requests made, in order
    px_resp,     \* the handler's answer, NoResponse before it
    px_pc        \* "idle", "start", "loop", "answer", "done"

varsParse == <<name, coords, ppc>>
varsLocate == <<listing, caller, files, layout, strategy, lpc>>
varsSlice == <<src, chunk_size, row, col, written, spc>>
varsStitch == <<opts, st_call, tile_w, tile_h, canvas, st_i, failed, saved, st_pc>>
varsBrush == <<ab_path, ab_img, ab_raw, ab_mask, ab_ret, ab_pc, save_debug,
              ab_green, ab_filled, ab_blended>>
varsBatch == <<bt_files, bt_i, bt_log, bt_run, bt_first, bt_pc>>
varsRun == <<run, first_run>>
varsEntry == <<entry, fs_input, status, created>>
varsProxy == <<px_args, attempts, last_r, px_sent, px_resp, px_pc>>
varsAirbrush == <<varsBrush, varsBatch>>
vars == <<name, coords, ppc, listing, caller, files, layout, strategy, lpc,
          src, chunk_size, row, col, written, spc, disk,
          opts, st_call, tile_w, tile_h, canvas, st_i, failed, saved, st_pc,
          ab_path, ab_img, ab_raw, ab_mask, ab_ret, ab_pc, save_debug,
          ab_green, ab_filled, ab_blended,
          bt_files, bt_i, bt_log, bt_run, bt_first, bt_pc,
          run, first_run, entry, fs_input, status, created,
          px_args, attempts, last_r, px_sent, px_resp, px_pc>>

\* Python's None, for an Optional[Tuple[int, int]] result.
None == <<>>

\* Python's None where the other values are records (a layout, an image).
NoLayout == [none |-> TRUE]
NoImage == [none |-> TRUE]

----------------------------------------------------------------------------
(* Characters and strings                                                  *)

Digits == {"0", "1", "2", "3", "4", "5", "6", "7", "8", "9"}

IsDigit(c) == c \in Digits

DigitVal(c) ==
    CASE c = "0" -> 0 [] c = "1" -> 1 [] c = "2" -> 2 [] c = "3" -> 3
      [] c = "4" -> 4 [] c = "5" -> 5 [] c = "6" -> 6 [] c = "7" -> 7
      [] c = "8" -> 8 [] c = "9" -> 9

DigitChar(d) == <<"0", "1", "2", "3", "4", "5", "6", "7", "8", "9">>[d + 1]

\* The largest index of character c in s, 0 when c does not occur (str.rfind + 1).
RFind(s, c) ==
    LET hits == {i \in 1..Len(s) : s[i] = c}
    IN  IF hits = {} THEN 0 ELSE CHOOSE i \in hits : \A j \in hits : j <= i

\* os.path.basename: what follows the last "/".
Basename(p) == SubSeq(p, RFind(p, "/") + 1, Len(p))

\* os.path.splitext(p)[0] for a name without directory part: the extension
\* starts at the last dot, unless only dots precede that dot.
SplitextRoot(p) ==
    LET dot == RFind(p, ".")
    IN  IF dot > 0 /\ \E i \in 1..(dot - 1) : p[i] # "."
        THEN SubSeq(p, 1, dot - 1)
        ELSE p

\* The index of the last character of the digit run that starts at i.
RECURSIVE RunEnd(_, _)
RunEnd(s, i) ==
    IF i < Len(s) /\ IsDigit(s[i + 1]) THEN RunEnd(s, i + 1) ELSE i

\* re.findall(r"-?\d+", s), scanning from index i: the matches, left to right.
RECURSIVE FindAllFrom(_, _)
FindAllFrom(s, i) ==
    IF i > Len(s) THEN <<>>
    ELSE IF IsDigit(s[i])
         THEN <<SubSeq(s, i, RunEnd(s, i))>> \o FindAllFrom(s, RunEnd(s, i) + 1)
    ELSE IF s[i] = "-" /\ i < Len(s) /\ IsDigit(s[i + 1])
         THEN <<SubSeq(s, i, RunEnd(s, i + 1))>>
                  \o FindAllFrom(s, RunEnd(s, i + 1) + 1)
    ELSE FindAllFrom(s, i + 1)

FindAll(s) == FindAllFrom(s, 1)

\* The value of a non-empty string of decimal digits.
RECURSIVE DecimalValue(_)
DecimalValue(ds) ==
    IF Len(ds) = 0 THEN 0
    ELSE 10 * DecimalValue(SubSeq(ds, 1, Len(ds) - 1)) + DigitVal(ds[Len(ds)])

\* int(m) for a match m of -?\d+.
PyInt(m) ==
    IF m[1] = "-" THEN 0 - DecimalValue(Tail(m)) ELSE DecimalValue(m)

Str_tile == <<"t", "i", "l", "e", "_">>
Str_png == <<".", "p", "n", "g">>
Str_bmp == <<".", "b", "m", "p">>

\* str(n) for an int.
RECURSIVE PyStrNat(_)
PyStrNat(n) ==
    IF n < 10 THEN <<DigitChar(n)>> ELSE PyStrNat(n \div 10) \o <<DigitChar(n % 10)>>

PyStr(n) == IF n < 0 THEN <<"-">> \o PyStrNat(0 - n) ELSE PyStrNat(n)

\* parse_coords_from_name with the first two numbers taken instead of the last two.
parse_coords_first_two(nm) ==
    LET nums == FindAll(SplitextRoot(Basename(nm)))
    IN  IF Len(nums) >= 2 THEN <<PyInt(nums[1]), PyInt(nums[2])>> ELSE None

parse_coords_from_name(nm) ==
    LET base == SplitextRoot(Basename(nm))
        nums == FindAll(base)
    IN  IF Len(nums) >= 2
        THEN <<PyInt(nums[Len(nums) - 1]), PyInt(nums[Len(nums)])>>
        ELSE None

----------------------------------------------------------------------------
(* The tile locator of _stitch_brushed.py                                  *)

\* The characters of the modelled names in code-point order; sorted() compares
\* strings by code point, so only the relative order matters.
CodePointOrder ==
    <<"-", ".", "/", "0", "1", "2", "3", "4", "5", "6", "7", "8", "9", "_",
      "a", "b", "c", "d", "e", "f", "g", "h", "i", "j", "k", "l", "m",
      "n", "o", "p", "q", "r", "s", "t", "u", "v", "w", "x", "y", "z">>

Ord(c) == CHOOSE i \in 1..Len(CodePointOrder) : CodePointOrder[i] = c

\* Python's a < b on strings.
StrLess(a, b) ==
    \E k \in 1..Len(b) :
        /\ \A i \in 1..(k - 1) : i <= Len(a) /\ a[i] = b[i]
        /\ (k > Len(a) \/ Ord(a[k]) < Ord(b[k]))

\* sorted(S) for a set of distinct strings.
RECURSIVE Sorted(_)
Sorted(S) ==
    IF S = {} THEN <<>>
    ELSE LET least == CHOOSE a \in S : \A b \in S \ {a} : StrLess(a, b)
         IN  <<least>> \o Sorted(S \ {least})

\* str.endswith
EndsWith(s, suffix) ==
    /\ Len(s) >= Len(suffix)
    /\ SubSeq(s, Len(s) - Len(suffix) + 1, Len(s)) = suffix

\* The extensions of IMAGE_GLOBS.
IMAGE_GLOBS ==
    { <<".", "p", "n", "g">>, <<".", "j", "p", "g">>, <<".", "j", "p", "e", "g">>,
      <<".", "t", "i", "f">>, <<".", "t", "i", "f", "f">>, <<".", "b", "m", "p">> }

\* glob's "*<ext>": the name ends with the extension and is not a hidden file.
GlobMatches(nm, ext) == Len(nm) > 0 /\ nm[1] # "." /\ EndsWith(nm, ext)

BrushedSuffix == <<"_", "b", "r", "u", "s", "h", "e", "d">>

\* A filter that takes every file whose base name has a suffix after the
\* coordinates, the masks too.
is_brushed_or_mask(path) ==
    \/ EndsWith(SplitextRoot(Basename(path)), BrushedSuffix)
    \/ EndsWith(SplitextRoot(Basename(path)), <<"_", "m", "a", "s", "k">>)

is_brushed(path) == EndsWith(SplitextRoot(Basename(path)), BrushedSuffix)

\* find_images(input_dir, recursive=False) on a directory holding `dir_names`.
find_images(dir_names) ==
    Sorted({f \in dir_names : (\E g \in IMAGE_GLOBS : GlobMatches(f, g)) /\ is_brushed(f)})

\* A dict in insertion order is a sequence of <<key, value>> entries.
DictKeys(d) == {d[i][1] : i \in 1..Len(d)}

DictGet(d, k) == d[CHOOSE i \in 1..Len(d) : d[i][1] = k][2]

\* d[k] = v: a present key keeps its place and gets the new value.
DictSet(d, k, v) ==
    IF k \in DictKeys(d)
    THEN [i \in 1..Len(d) |-> IF d[i][1] = k THEN <<k, v>> ELSE d[i]]
    ELSE Append(d, <<k, v>>)

SetMin(S) == CHOOSE m \in S : \A x \in S : m <= x
SetMax(S) == CHOOSE m \in S : \A x \in S : m >= x

\* The loop of arrange_by_coords over files[i..], with the dict and the two sets
\* built so far; None as soon as one name gives no coordinates.  Each iteration
\* finishes its three updates before the next one starts (the test on m, nx, ny
\* is always true after an insertion; it only fixes that order of evaluation).
RECURSIVE ArrangeLoop(_, _, _, _, _)
ArrangeLoop(fs, i, mapping, xs, ys) ==
    IF i > Len(fs)
    THEN IF mapping = <<>> THEN NoLayout
         ELSE [mapping |-> mapping,
               min_x |-> SetMin(xs), min_y |-> SetMin(ys),
               max_x |-> SetMax(xs), max_y |-> SetMax(ys)]
    ELSE LET rc == parse_coords_from_name(fs[i])
         IN  IF rc = None THEN NoLayout
             ELSE LET m == DictSet(mapping, <<rc[2], rc[1]>>, fs[i])
                      nx == xs \cup {rc[2]}
                      ny == ys \cup {rc[1]}
                 IN  IF m # <<>> /\ nx # {} /\ ny # {}
                     THEN ArrangeLoop(fs, i + 1, m, nx, ny)
                     ELSE NoLayout

\* arrange_by_coords keyed (row, col) instead of (x = col, y = row).
RECURSIVE ArrangeLoopRowCol(_, _, _, _, _)
ArrangeLoopRowCol(fs, i, mapping, xs, ys) ==
    IF i > Len(fs)
    THEN IF mapping = <<>> THEN NoLayout
         ELSE [mapping |-> mapping,
               min_x |-> SetMin(xs), min_y |-> SetMin(ys),
               max_x |-> SetMax(xs), max_y |-> SetMax(ys)]
    ELSE LET rc == parse_coords_from_name(fs[i])
         IN  IF rc = None THEN NoLayout
             ELSE LET m == DictSet(mapping, <<rc[1], rc[2]>>, fs[i])
                      nx == xs \cup {rc[1]}
                      ny == ys \cup {rc[2]}
                 IN  IF m # <<>> /\ nx # {} /\ ny # {}
                     THEN ArrangeLoopRowCol(fs, i + 1, m, nx, ny)
                     ELSE NoLayout

arrange_by_coords_row_col(fs) == ArrangeLoopRowCol(fs, 1, <<>>, {}, {})

\* arrange_by_coords that skips a name without coordinates instead of giving up.
RECURSIVE ArrangeLoopSkip(_, _, _, _, _)
ArrangeLoopSkip(fs, i, mapping, xs, ys) ==
    IF i > Len(fs)
    THEN IF mapping = <<>> THEN NoLayout
         ELSE [mapping |-> mapping,
               min_x |-> SetMin(xs), min_y |-> SetMin(ys),
               max_x |-> SetMax(xs), max_y |-> SetMax(ys)]
    ELSE LET rc == parse_coords_from_name(fs[i])
         IN  IF rc = None THEN ArrangeLoopSkip(fs, i + 1, mapping, xs, ys)
             ELSE LET m == DictSet(mapping, <<rc[2], rc[1]>>, fs[i])
                      nx == xs \cup {rc[2]}
                      ny == ys \cup {rc[1]}
                 IN  IF m # <<>> /\ nx # {} /\ ny # {}
                     THEN ArrangeLoopSkip(fs, i + 1, m, nx, ny)
                     ELSE NoLayout

arrange_by_coords_skipping(fs) == ArrangeLoopSkip(fs, 1, <<>>, {}, {})

arrange_by_coords(fs) == ArrangeLoop(fs, 1, <<>>, {}, {})

\* int(math.sqrt(n)) for the small n of the model.
IntSqrt(n) == CHOOSE k \in 0..n : k * k <= n /\ (k + 1) * (k + 1) > n

\* math.ceil(a / b) for a >= 0, b > 0.
CeilDiv(a, b) == (a + b - 1) \div b

\* The search loop of fallback_grid: `best` after rows = r, r+1, ..., last.
RECURSIVE BestFrom(_, _, _, _)
BestFrom(n, r, last, best) ==
    IF r > last THEN best
    ELSE BestFrom(n, r + 1, last, IF n % r = 0 THEN <<r, n \div r>> ELSE best)

\* fallback_grid that keeps the first exact divisor it finds.
FallbackShapeFirstDivisor(n) == <<1, n>>

\* <<rows, cols>> as fallback_grid chooses them for n files.
FallbackShape(n) ==
    LET best == BestFrom(n, 1, IntSqrt(n) + 1, None)
    IN  IF best = None
        THEN LET cols == IF IntSqrt(n) * IntSqrt(n) = n THEN IntSqrt(n) ELSE IntSqrt(n) + 1
             IN  <<CeilDiv(n, cols), cols>>
        ELSE best

\* The filling loop of fallback_grid: cell (c, r) gets files[idx], row by row;
\* `break` leaves the inner loop only, and the outer loop then runs on.
RECURSIVE FillGrid(_, _, _, _, _, _)
FillGrid(fs, rows, cols, r, c, mapping) ==
    LET idx == Len(mapping)
    IN  IF r >= rows THEN mapping
        ELSE IF c >= cols \/ idx >= Len(fs)
             THEN FillGrid(fs, rows, cols, r + 1, 0, mapping)
        ELSE FillGrid(fs, rows, cols, r, c + 1, Append(mapping, <<<<c, r>>, fs[idx + 1]>>))

\* fallback_grid that fills column by column.
RECURSIVE FillGridByColumn(_, _, _, _, _, _)
FillGridByColumn(fs, rows, cols, r, c, mapping) ==
    LET idx == Len(mapping)
    IN  IF c >= cols THEN mapping
        ELSE IF r >= rows \/ idx >= Len(fs)
             THEN FillGridByColumn(fs, rows, cols, 0, c + 1, mapping)
        ELSE FillGridByColumn(fs, rows, cols, r + 1, c, Append(mapping, <<<<c, r>>, fs[idx + 1]>>))

fallback_grid_by_column(fs) ==
    LET shape == FallbackShape(Len(fs))
    IN  [mapping |-> FillGridByColumn(fs, shape[1], shape[2], 0, 0, <<>>),
         min_x |-> 0, min_y |-> 0, max_x |-> shape[2] - 1, max_y |-> shape[1] - 1]

fallback_grid(fs) ==
    LET shape == FallbackShape(Len(fs))
    IN  [mapping |-> FillGrid(fs, shape[1], shape[2], 0, 0, <<>>),
         min_x |-> 0, min_y |-> 0, max_x |-> shape[2] - 1, max_y |-> shape[1] - 1]

----------------------------------------------------------------------------
(* Images                                                                  *)
(* A pixel is [c, a]: c identifies the colour (0 is black, (0,0,0)), a is  *)
(* the alpha value; a pixel of an image without alpha channel has a = 255, *)
(* which is what convert('RGBA') gives it.                                 *)
(* An image is [w, h, mode, px], px a function on (0..w-1) \X (0..h-1).    *)

Opaque == 255

\* (0, 0, 0, 0)
TransparentBlack == [c |-> 0, a |-> 0]

Positions(w, h) == (0..(w - 1)) \X (0..(h - 1))

\* Image.new(mode, (w, h), color)
NewImage(mode, w, h, color) ==
    [w |-> w, h |-> h, mode |-> mode, px |-> [p \in Positions(w, h) |-> color]]

\* One pixel converted to a mode: RGB has no alpha channel.
ConvertPixel(p, mode) == IF mode = "RGB" THEN [c |-> p.c, a |-> Opaque] ELSE p

\* Image.convert(mode)
Convert(im, mode) ==
    [w |-> im.w, h |-> im.h, mode |-> mode,
     px |-> [p \in Positions(im.w, im.h) |-> ConvertPixel(im.px[p], mode)]]

\* Image.crop((left, top, right, bottom)) for a box inside the image.
Crop(im, box) ==
    [w |-> box.right - box.left, h |-> box.bottom - box.top, mode |-> im.mode,
     px |-> [p \in Positions(box.right - box.left, box.bottom - box.top) |->
                im.px[<<box.left + p[1], box.top + p[2]>>]]]

\* base.paste(im, (x, y)) without mask: the pixels of im, converted to the mode
\* of base, replace those of base; what falls outside base is clipped.
Paste(base, im, x, y) ==
    [base EXCEPT !.px =
        [p \in Positions(base.w, base.h) |->
            IF /\ x <= p[1] /\ p[1] < x + im.w
               /\ y <= p[2] /\ p[2] < y + im.h
            THEN ConvertPixel(im.px[<<p[1] - x, p[2] - y>>], base.mode)
            ELSE base.px[p]]]

----------------------------------------------------------------------------
(* slice_image of image_slicer.py                                          *)

\* math.ceil(a / b) for a >= 0 and b # 0.
PyCeilDiv(a, b) == IF b > 0 THEN (a + b - 1) \div b ELSE 0 - (a \div (0 - b))

\* The number of columns with the quotient rounded down.
SliceColsFloor(width, chunk) == width \div chunk

SliceCols(width, chunk) == PyCeilDiv(width, chunk)

SliceRows(height, chunk) == PyCeilDiv(height, chunk)

CropBox(r, c, chunk, width, height) ==
    LET left == c * chunk
        top == r * chunk
    IN  [left |-> left, top |-> top,
         right |-> IF left + chunk <= width THEN left + chunk ELSE width,
         bottom |-> IF top + chunk <= height THEN top + chunk ELSE height]

\* The padding of an edge piece with opaque black instead of transparent pixels.
PadChunkOpaque(chunk, size) ==
    IF <<chunk.w, chunk.h>> # <<size, size>>
    THEN Paste(NewImage("RGBA", size, size, [c |-> 0, a |-> Opaque]), chunk, 0, 0)
    ELSE chunk

\* Lines 76-81: an edge piece is pasted at (0, 0) of a transparent RGBA square.
PadChunk(chunk, size) ==
    IF <<chunk.w, chunk.h>> # <<size, size>>
    THEN Paste(NewImage("RGBA", size, size, TransparentBlack), chunk, 0, 0)
    ELSE chunk

\* f"{row}_{col}.png"
TileFilename(r, c) == PyStr(r) \o <<"_">> \o PyStr(c) \o Str_png

\* name :> file added to (or replacing an entry of) a directory.
WriteFile(d, nm, file) ==
    [n \in DOMAIN d \cup {nm} |-> IF n = nm THEN file ELSE d[n]]

----------------------------------------------------------------------------
(* stitch of _stitch_brushed.py                                            *)

\* The default of --tile-size.
DefaultTileSize == 1024

\* The canvas created without alpha channel whatever the fill colour.
CanvasModeOpaque(fill) == "RGB"

\* Line 140: RGBA only for a 4-tuple fill colour.
CanvasMode(fill) == IF fill.n = 4 THEN "RGBA" ELSE "RGB"

\* The tile size taken to be the default of the command when none is given.
TileSizeDefaulted(call, first) ==
    IF call.tile_size_given THEN <<call.tile_size, call.tile_size>>
    ELSE <<DefaultTileSize, DefaultTileSize>>

\* Lines 126-131: <<tile_w, tile_h>>, from the argument or from the first tile.
TileSize(call, first) ==
    IF call.tile_size_given THEN <<call.tile_size, call.tile_size>>
    ELSE <<first.img.w, first.img.h>>

\* The offset with the axes exchanged.
PasteOffsetSwapped(x, y, min_x, min_y, tw, th) ==
    <<(y - min_y) * th, (x - min_x) * tw>>

\* The offset without the shift to the layout's origin.
PasteOffsetUnshifted(x, y, min_x, min_y, tw, th) ==
    <<x * tw, y * th>>

\* Lines 147-148.
PasteOffset(x, y, min_x, min_y, tw, th) ==
    <<(x - min_x) * tw, (y - min_y) * th>>


(* The image `stitched` is kept as its background and the list of pastes made *)
(* onto it, oldest first: [w, h, mode, bg, pastes], a paste being [x, y, im]. *)
(* A pasted image is a tile, or a composite saved by an earlier run and kept   *)
(* the same way.                                                               *)

\* Image.new(mode, (w, h), color=fill_color)
NewCanvas(mode, w, h, color) ==
    [w |-> w, h |-> h, mode |-> mode, bg |-> ConvertPixel(color, mode), pastes |-> <<>>]

IsCanvas(im) == "pastes" \in DOMAIN im

\* Image.convert(mode) of a tile or of a composite; stitched.convert('RGB').
RECURSIVE CanvasConvert(_, _)
CanvasConvert(cv, mode) ==
    IF IsCanvas(cv)
    THEN [cv EXCEPT !.mode = mode, !.bg = ConvertPixel(@, mode),
                    !.pastes = [k \in 1..Len(@) |->
                                   [@[k] EXCEPT !.im = CanvasConvert(@, mode)]]]
    ELSE Convert(cv, mode)

\* stitched.paste(tile, (x, y))
CanvasPaste(cv, im, x, y) ==
    [cv EXCEPT !.pastes = Append(@, [x |-> x, y |-> y, im |-> CanvasConvert(im, cv.mode)])]

Covers(ps, p) ==
    /\ ps.x <= p[1] /\ p[1] < ps.x + ps.im.w
    /\ ps.y <= p[2] /\ p[2] < ps.y + ps.im.h

\* The pixel of the canvas at position p: that of the latest paste covering p,
\* the background where there is none.
RECURSIVE CanvasPixel(_, _)
CanvasPixel(cv, p) ==
    IF ~IsCanvas(cv) THEN cv.px[p]
    ELSE LET over == {k \in 1..Len(cv.pastes) : Covers(cv.pastes[k], p)}
         IN  IF over = {} THEN cv.bg
             ELSE LET ps == cv.pastes[SetMax(over)]
                  IN  CanvasPixel(ps.im, <<p[1] - ps.x, p[2] - ps.y>>)

\* _stitched_brushed.bmp, the default of --output-name
DefaultOutputName ==
    <<"_", "s", "t", "i", "t", "c", "h", "e", "d">> \o BrushedSuffix \o Str_bmp

\* The file name the command saves as: the default, or out.png where the
\* user asks for a PNG.
OutputName(o) == IF o.out_bmp THEN DefaultOutputName ELSE <<"o", "u", "t">> \o Str_png

\* Lines 190-211: the fill colour for a --background option; n is the length
\* of the tuple.
ParseBackground(b) ==
    CASE b = "none" -> [c |-> 0, a |-> 0, n |-> 4]
      [] b = "#000000" -> [c |-> 0, a |-> Opaque, n |-> 3]
      [] b = "#000000ff" -> [c |-> 0, a |-> Opaque, n |-> 4]

----------------------------------------------------------------------------
(* Specification SpecParse: parse_coords_from_name on every short name     *)

MaxNameLen == 5

NameAlphabet == {"0", "7", "_", "-", ".", "/"}

ShortNames == UNION {[1..n -> NameAlphabet] : n \in 0..MaxNameLen}

IdleParse == name = <<>> /\ coords = None /\ ppc = "idle"

IdleLocate ==
    /\ listing = {} /\ caller = "none" /\ files = <<>>
    /\ layout = NoLayout /\ strategy = "none" /\ lpc = "idle"

IdleSlice ==
    /\ src = NoImage /\ chunk_size = 0 /\ row = 0 /\ col = 0
    /\ written = <<>> /\ spc = "idle"

NoOpts == [none |-> TRUE]

IdleStitch ==
    /\ opts = NoOpts /\ st_call = NoOpts /\ tile_w = 0 /\ tile_h = 0
    /\ canvas = NoImage /\ st_i = 0 /\ failed = {} /\ saved = NoImage
    /\ st_pc = "idle"

IdleBrush ==
    /\ ab_path = <<>> /\ ab_img = NoImage /\ ab_raw = NoImage /\ ab_mask = NoImage
    /\ ab_ret = "none" /\ ab_pc = "idle" /\ save_debug = FALSE
    /\ ab_green = None /\ ab_filled = NoImage /\ ab_blended = NoImage

IdleBatch ==
    /\ bt_files = <<>> /\ bt_i = 0 /\ bt_log = {} /\ bt_run = 0 /\ bt_first = {}
    /\ bt_pc = "idle"

NoRun == [none |-> TRUE]

IdleRun == run = 1 /\ first_run = NoRun

\* None where a response is expected; requests.Response() has no status code
\* and no content either.
NoResponse == [kind |-> "none", status_code |-> 0, content |-> ""]

IdleProxy ==
    /\ px_args = <<>> /\ attempts = 0 /\ last_r = NoResponse /\ px_sent = <<>>
    /\ px_resp = NoResponse /\ px_pc = "idle"

IdleEntry == entry = "none" /\ fs_input = "dir" /\ status = "none" /\ created = {}

InitParse ==
    /\ name \in ShortNames
    /\ coords = None
    /\ ppc = "start"
    /\ IdleLocate /\ IdleSlice /\ IdleStitch /\ disk = <<>>
    /\ IdleBrush /\ IdleBatch /\ IdleRun /\ IdleProxy /\ IdleEntry

ParseCoords ==
    /\ ppc = "start"
    /\ coords' = parse_coords_from_name(name)
    /\ ppc' = "done"
    /\ UNCHANGED <<name, varsLocate, varsSlice, disk, varsStitch, varsAirbrush, varsRun, varsProxy, varsEntry>>

NextParse == ParseCoords

SpecParse == InitParse /\ [][NextParse]_vars

\* C4 (as stated): the last two digit runs of the base name are (row, col), each
\* with the non-negative value of its digits; fewer than two runs give None.
DigitRuns(s) ==
    {r \in (1..Len(s)) \X (1..Len(s)) :
        /\ r[1] <= r[2]
        /\ \A i \in r[1]..r[2] : IsDigit(s[i])
        /\ (r[1] = 1 \/ ~IsDigit(s[r[1] - 1]))
        /\ (r[2] = Len(s) \/ ~IsDigit(s[r[2] + 1]))}

\* The run of `runs` with exactly k runs to its right.
RunFromRight(runs, k) ==
    CHOOSE r \in runs : Cardinality({q \in runs : q[1] > r[1]}) = k

RunValue(s, r) == DecimalValue(SubSeq(s, r[1], r[2]))

SignedRunValue(s, r) ==
    IF r[1] > 1 /\ s[r[1] - 1] = "-" THEN 0 - RunValue(s, r) ELSE RunValue(s, r)

BaseOf(nm) == SplitextRoot(Basename(nm))

C4_LastTwoRunsNonNegative ==
    ppc = "done" =>
        LET base == BaseOf(name)
            runs == DigitRuns(base)
        IN  IF Cardinality(runs) >= 2
            THEN coords = <<RunValue(base, RunFromRight(runs, 1)),
                            RunValue(base, RunFromRight(runs, 0))>>
            ELSE coords = None

\* C4 (amended): the last two digit runs of the base name are (row, col), the
\* rightmost being the column; a run directly preceded by "-" is read as a
\* negative number, any other run as the value of its digits; fewer than two
\* runs give None.
C4_LastTwoRunsSigned ==
    ppc = "done" =>
        LET base == BaseOf(name)
            runs == DigitRuns(base)
        IN  IF Cardinality(runs) >= 2
            THEN coords = <<SignedRunValue(base, RunFromRight(runs, 1)),
                            SignedRunValue(base, RunFromRight(runs, 0))>>
            ELSE coords = None

\* A parsed name with three digit runs, the last of them behind a "-".
C4_Witness ==
    /\ ppc = "done"
    /\ Cardinality(DigitRuns(BaseOf(name))) >= 3
    /\ coords # None
    /\ coords[2] < 0

----------------------------------------------------------------------------
(* Specification SpecLocate: the locator as the stitch command runs it, and *)
(* fallback_grid called on a list of names                                  *)

MaxFiles == 5

\* tile_{r}_{c}_brushed.png
BrushedTileName(r, c) ==
    Str_tile \o PyStr(r) \o <<"_">> \o PyStr(c) \o BrushedSuffix \o Str_png

LocatePool ==
    { BrushedTileName(0, 0), BrushedTileName(0, 1),
      BrushedTileName(1, 0), BrushedTileName(1, 1),
      \* tile_00_1_brushed.png: the coordinates of tile_0_1_brushed.png
      Str_tile \o <<"0", "0", "_", "1">> \o BrushedSuffix \o Str_png,
      \* t-1-2_brushed.png
      <<"t", "-", "1", "-", "2">> \o BrushedSuffix \o Str_png,
      \* v2_tile_3_5_brushed.png
      <<"v", "2", "_">> \o Str_tile \o <<"3", "_", "5">> \o BrushedSuffix \o Str_png,
      \* a_brushed.png, b_brushed.png, v2_brushed.png
      <<"a">> \o BrushedSuffix \o Str_png,
      <<"b">> \o BrushedSuffix \o Str_png,
      <<"v", "2">> \o BrushedSuffix \o Str_png,
      \* a.png, b.png, c.png, d.png
      <<"a">> \o Str_png, <<"b">> \o Str_png, <<"c">> \o Str_png, <<"d">> \o Str_png,
      \* _stitched_brushed.bmp
      <<"_", "s", "t", "i", "t", "c", "h", "e", "d">> \o BrushedSuffix \o Str_bmp }

InitLocate ==
    /\ listing \in {S \in SUBSET LocatePool : Cardinality(S) <= MaxFiles}
    /\ caller \in {"main", "direct"}
    /\ files = <<>>
    /\ layout = NoLayout
    /\ strategy = "none"
    /\ lpc = "start"
    /\ IdleParse /\ IdleSlice /\ IdleStitch /\ disk = <<>>
    /\ IdleBrush /\ IdleBatch /\ IdleRun /\ IdleProxy /\ IdleEntry

\* main, lines 176-179: discovery, and exit code 3 when nothing is found.
MainFindImages ==
    /\ lpc = "start" /\ caller \in {"main", "api"}
    /\ files' = find_images(listing)
    /\ lpc' = IF files' = <<>> THEN "exit3" ELSE "found"
    /\ UNCHANGED <<listing, caller, layout, strategy, varsParse, varsSlice, disk, varsStitch, varsAirbrush, varsRun, varsProxy, varsEntry>>

\* main, lines 181-186: the primary strategy, else the fallback grid.
MainArrange ==
    /\ lpc = "found" /\ caller \in {"main", "api"}
    /\ LET arranged == arrange_by_coords(files)
       IN  IF arranged = NoLayout
           THEN layout' = fallback_grid(files) /\ strategy' = "grid"
           ELSE layout' = arranged /\ strategy' = "coords"
    /\ lpc' = "located"
    /\ UNCHANGED <<listing, caller, files, varsParse, varsSlice, disk, varsStitch, varsAirbrush, varsRun, varsProxy, varsEntry>>

\* fallback_grid called on the sorted names of the directory.
CallFallbackGrid ==
    /\ lpc = "start" /\ caller = "direct"
    /\ files' = Sorted(listing)
    /\ layout' = fallback_grid(files')
    /\ strategy' = "grid"
    /\ lpc' = "located"
    /\ UNCHANGED <<listing, caller, varsParse, varsSlice, disk, varsStitch, varsAirbrush, varsRun, varsProxy, varsEntry>>

NextLocate == MainFindImages \/ MainArrange \/ CallFallbackGrid

SpecLocate == InitLocate /\ [][NextLocate]_vars

\* (row, col) of a name by the locator's rule, from its digit runs.
RowColOf(nm) ==
    LET base == BaseOf(nm)
        runs == DigitRuns(base)
    IN  <<SignedRunValue(base, RunFromRight(runs, 1)),
          SignedRunValue(base, RunFromRight(runs, 0))>>

HasTwoRuns(nm) == Cardinality(DigitRuns(BaseOf(nm))) >= 2

\* The files of the list sit row-major in a grid of `cols` columns.
RowMajor(fs, mapping, cols) ==
    /\ Len(mapping) = Len(fs)
    /\ \A i \in 1..Len(fs) :
          /\ <<(i - 1) % cols, (i - 1) \div cols>> \in DictKeys(mapping)
          /\ DictGet(mapping, <<(i - 1) % cols, (i - 1) \div cols>>) = fs[i]

\* C5: in the stitch command, one name with fewer than two digit runs sends
\* every file of the set to the fallback grid, without an error; when every name
\* has two or more digit runs the fallback is not used.
C5_AllOrNothing ==
    (caller = "main" /\ lpc = "located") =>
        IF \E i \in 1..Len(files) : ~HasTwoRuns(files[i])
        THEN /\ strategy = "grid"
             /\ (layout.max_x + 1) * (layout.max_y + 1) = Len(files)
             /\ RowMajor(files, layout.mapping, layout.max_x + 1)
        ELSE strategy = "coords"

\* A set with a coordinate-bearing name and a digit-free name, located by the grid.
C5_Witness ==
    /\ caller = "main" /\ lpc = "located" /\ strategy = "grid"
    /\ \E i \in 1..Len(files) : HasTwoRuns(files[i])
    /\ \E i \in 1..Len(files) : ~HasTwoRuns(files[i])
    /\ Len(files) >= 3

FourPlainNames ==
    << <<"a">> \o Str_png, <<"b">> \o Str_png, <<"c">> \o Str_png, <<"d">> \o Str_png >>

\* C6: for n >= 1 files fallback_grid takes rows * cols = n, puts the file of
\* index i at (i mod cols, i div cols), so that the positions are distinct and
\* fill the rows x cols rectangle, and reports the bounds (0, 0, cols-1, rows-1);
\* a.png .. d.png give a 2 x 2 layout.
C6_FallbackComplete ==
    (lpc = "located" /\ strategy = "grid" /\ Len(files) >= 1) =>
        LET cols == layout.max_x + 1
            rows == layout.max_y + 1
        IN  /\ layout.min_x = 0 /\ layout.min_y = 0
            /\ rows >= 1 /\ cols >= 1
            /\ rows * cols = Len(files)
            /\ RowMajor(files, layout.mapping, cols)
            /\ Cardinality(DictKeys(layout.mapping)) = Len(files)
            /\ DictKeys(layout.mapping) = (0..(cols - 1)) \X (0..(rows - 1))
            /\ (files = FourPlainNames => rows = 2 /\ cols = 2)

\* fallback_grid has laid out a.png, b.png, c.png, d.png.
C6_Witness ==
    /\ lpc = "located" /\ strategy = "grid" /\ caller = "direct"
    /\ files = FourPlainNames
    /\ Len(layout.mapping) = 4

BoundsOverAllFiles ==
    LET cs == {RowColOf(files[i])[2] : i \in 1..Len(files)}
        rs == {RowColOf(files[i])[1] : i \in 1..Len(files)}
    IN  /\ layout.min_x = SetMin(cs) /\ layout.max_x = SetMax(cs)
        /\ layout.min_y = SetMin(rs) /\ layout.max_y = SetMax(rs)

FourExampleTiles ==
    << BrushedTileName(0, 0), BrushedTileName(0, 1),
       BrushedTileName(1, 0), BrushedTileName(1, 1) >>

ExampleLayout ==
    files = FourExampleTiles =>
        /\ layout.mapping = << <<<<0, 0>>, BrushedTileName(0, 0)>>,
                               <<<<1, 0>>, BrushedTileName(0, 1)>>,
                               <<<<0, 1>>, BrushedTileName(1, 0)>>,
                               <<<<1, 1>>, BrushedTileName(1, 1)>> >>
        /\ <<layout.min_x, layout.min_y, layout.max_x, layout.max_y>> = <<0, 0, 1, 1>>

----------------------------------------------------------------------------
(* The steps of stitch, and its call                                       *)

\* main, lines 188-213, or a call of stitch by another caller: the command
\* always passes a tile size, 1024 unless the user chose one.
StitchCall ==
    /\ lpc = "located" /\ st_pc = "idle" /\ opts # NoOpts
    /\ st_call' =
          [tile_size_given |-> caller = "main" \/ opts.tile_size_given,
           tile_size |-> IF opts.tile_size_given THEN opts.tile_size
                         ELSE IF caller = "main" THEN DefaultTileSize ELSE 0,
           fill |-> ParseBackground(opts.background),
           out_bmp |-> opts.out_bmp]
    /\ st_pc' = "start"
    /\ UNCHANGED <<varsParse, varsLocate, varsSlice, disk,
                   opts, tile_w, tile_h, canvas, st_i, failed, saved, varsAirbrush, varsRun, varsProxy, varsEntry>>

\* Lines 126-141: the tile size, read from the first tile of the mapping when
\* none is given (an unreadable first tile raises), and the new canvas.
StitchBegin ==
    /\ st_pc = "start"
    /\ LET first == disk[layout.mapping[1][2]]
       IN  IF ~st_call.tile_size_given /\ first.status = "badheader"
           THEN /\ st_pc' = "raised"
                /\ UNCHANGED <<tile_w, tile_h, canvas, st_i>>
           ELSE LET tw == TileSize(st_call, first)[1]
                    th == TileSize(st_call, first)[2]
                IN  /\ tile_w' = tw
                    /\ tile_h' = th
                    /\ canvas' = NewCanvas(CanvasMode(st_call.fill),
                                           (layout.max_x - layout.min_x + 1) * tw,
                                           (layout.max_y - layout.min_y + 1) * th,
                                           [c |-> st_call.fill.c, a |-> st_call.fill.a])
                    /\ st_i' = 1
                    /\ st_pc' = "paste"
    /\ UNCHANGED <<varsParse, varsLocate, varsSlice, disk, opts, st_call, failed, saved, varsAirbrush, varsRun, varsProxy, varsEntry>>

\* Lines 143-151: one turn of the loop; a tile that cannot be opened or
\* converted gets the warning and is left out.
StitchPaste ==
    /\ st_pc = "paste" /\ st_i <= Len(layout.mapping)
    /\ LET key == layout.mapping[st_i][1]
           path == layout.mapping[st_i][2]
           at == PasteOffset(key[1], key[2], layout.min_x, layout.min_y, tile_w, tile_h)
       IN  IF disk[path].status # "ok"
           THEN failed' = failed \cup {path} /\ UNCHANGED canvas
           ELSE canvas' = CanvasPaste(canvas, disk[path].img, at[1], at[2])
                /\ UNCHANGED failed
    /\ st_i' = st_i + 1
    /\ UNCHANGED <<varsParse, varsLocate, varsSlice, disk,
                   opts, st_call, tile_w, tile_h, saved, st_pc, varsAirbrush, varsRun, varsProxy, varsEntry>>

\* Lines 153-158: the conversion for a .bmp path, and the save.  The command
\* saves into the input directory (line 188); another caller gives a path of
\* its own, outside it.
StitchSave ==
    /\ st_pc = "paste" /\ st_i > Len(layout.mapping)
    /\ saved' = IF st_call.out_bmp /\ canvas.mode # "RGB"
                THEN CanvasConvert(canvas, "RGB")
                ELSE canvas
    /\ st_pc' = "saved"
    /\ IF caller = "main"
       THEN /\ listing' = listing \cup {OutputName(opts)}
            /\ disk' = WriteFile(disk, OutputName(opts), [status |-> "ok", img |-> saved'])
       ELSE UNCHANGED <<listing, disk>>
    /\ UNCHANGED <<varsParse, caller, files, layout, strategy, lpc, varsSlice,
                   opts, st_call, tile_w, tile_h, canvas, st_i, failed, varsAirbrush, varsRun, varsProxy, varsEntry>>

----------------------------------------------------------------------------
(* Specification SpecSlice: slice_image, then arrange_by_coords and stitch  *)
(* on the tiles it wrote                                                    *)

MaxW == 3
MaxH == 11
MaxChunk == 3

\* A source image whose pixels all differ; with an alpha channel, every other
\* pixel is half transparent.
SourceImage(w, h, mode) ==
    [w |-> w, h |-> h, mode |-> mode,
     px |-> [p \in Positions(w, h) |->
                [c |-> 1 + p[1] + p[2] * w,
                 a |-> IF mode = "RGBA" /\ (p[1] + p[2]) % 2 = 1 THEN 128 ELSE Opaque]]]

\* An output directory that already holds a tile of an earlier run.
StaleDir ==
    [n \in {TileFilename(9, 9)} |->
        [status |-> "ok", img |-> NewImage("RGB", 1, 1, [c |-> 0, a |-> Opaque])]]

InitSlice ==
    /\ src \in {[status |-> st, img |-> SourceImage(w, h, m)] :
                   st \in {"ok", "badheader", "baddata"},
                   w \in 1..MaxW, h \in 1..MaxH, m \in {"RGB", "RGBA"}}
    /\ chunk_size \in (0 - 1)..MaxChunk
    /\ row = 0 /\ col = 0
    /\ written = <<>>
    /\ spc = "start"
    /\ disk \in {<<>>, StaleDir}
    /\ IdleParse
    /\ listing = {} /\ caller = "roundtrip" /\ files = <<>>
    /\ layout = NoLayout /\ strategy = "none" /\ lpc = "start"
    /\ opts \in {[tile_size_given |-> FALSE, tile_size |-> 0,
                  background |-> "none", out_bmp |-> b] : b \in BOOLEAN}
    /\ st_call = NoOpts /\ tile_w = 0 /\ tile_h = 0
    /\ canvas = NoImage /\ st_i = 0 /\ failed = {} /\ saved = NoImage
    /\ st_pc = "idle"
    /\ IdleBrush /\ IdleBatch /\ IdleRun /\ IdleProxy /\ IdleEntry

\* Lines 38-60: the image is opened (a failure is printed and the function
\* returns), the grid is computed (a chunk size of 0 raises ZeroDivisionError).
SliceBegin ==
    /\ spc = "start"
    /\ IF src.status = "badheader" THEN spc' = "open_failed"
       ELSE IF chunk_size = 0 THEN spc' = "raised"
       ELSE IF SliceRows(src.img.h, chunk_size) <= 0 \/ SliceCols(src.img.w, chunk_size) <= 0
            THEN spc' = "done"
       ELSE spc' = "loop"
    /\ row' = 0 /\ col' = 0
    /\ UNCHANGED <<varsParse, varsLocate, src, chunk_size, written, disk, varsStitch, varsAirbrush, varsRun, varsProxy, varsEntry>>

\* Lines 64-93: one tile is cropped, padded when smaller than the chunk size,
\* and saved; the loops go on to the next column, then the next row.
SliceTile ==
    /\ spc = "loop"
    /\ IF src.status = "baddata"
       THEN spc' = "raised" /\ UNCHANGED <<row, col, written, disk>>
       ELSE LET cols == SliceCols(src.img.w, chunk_size)
                rows == SliceRows(src.img.h, chunk_size)
                box == CropBox(row, col, chunk_size, src.img.w, src.img.h)
                chunk == PadChunk(Crop(src.img, box), chunk_size)
                filename == TileFilename(row, col)
            IN  /\ disk' = WriteFile(disk, filename, [status |-> "ok", img |-> chunk])
                /\ written' = Append(written, filename)
                /\ IF col + 1 < cols
                   THEN col' = col + 1 /\ UNCHANGED <<row, spc>>
                   ELSE /\ col' = 0
                        /\ row' = row + 1
                        /\ spc' = IF row + 1 < rows THEN "loop" ELSE "done"
    /\ UNCHANGED <<varsParse, varsLocate, src, chunk_size, varsStitch, varsAirbrush, varsRun, varsProxy, varsEntry>>

\* arrange_by_coords on the names slice_image wrote.
RoundTripLocate ==
    /\ spc = "done" /\ caller = "roundtrip" /\ lpc = "start" /\ written # <<>>
    /\ files' = written
    /\ layout' = arrange_by_coords(written)
    /\ strategy' = "coords"
    /\ lpc' = IF layout' = NoLayout THEN "unlocated" ELSE "located"
    /\ UNCHANGED <<varsParse, listing, caller, varsSlice, disk, varsStitch, varsAirbrush, varsRun, varsProxy, varsEntry>>

NextSlice ==
    \/ SliceBegin \/ SliceTile \/ RoundTripLocate
    \/ StitchCall \/ StitchBegin \/ StitchPaste \/ StitchSave

SpecSlice == InitSlice /\ [][NextSlice]_vars

\* The least k with k * b >= a, for a >= 0 and b >= 1.
CeilOf(a, b) == CHOOSE k \in 0..a : k * b >= a /\ (k - 1) * b < a

SeqRange(q) == {q[i] : i \in 1..Len(q)}

\* C2: for a decodable W x H source and a chunk size C >= 1, slice_image writes
\* ceil(W/C) * ceil(H/C) files, one named {row}_{col}.png for each row below
\* ceil(H/C) and column below ceil(W/C) and no other, in row-major order.
C2_TilesRowMajor ==
    (src.status = "ok" /\ chunk_size >= 1) =>
        LET cols == CeilOf(src.img.w, chunk_size)
            rows == CeilOf(src.img.h, chunk_size)
        IN  /\ spc \in {"start", "loop", "done"}
            /\ Len(written) <= rows * cols
            /\ \A k \in 1..Len(written) :
                  /\ written[k] = TileFilename((k - 1) \div cols, (k - 1) % cols)
                  /\ written[k] \in DOMAIN disk
            /\ Cardinality(SeqRange(written)) = Len(written)
            /\ spc = "done" =>
                  /\ Len(written) = rows * cols
                  /\ SeqRange(written) =
                        {TileFilename(r, c) : r \in 0..(rows - 1), c \in 0..(cols - 1)}
            /\ spc = "loop" => Len(written) = row * cols + col

\* A finished run over a 2 x 11 source with chunk size 1: 22 tiles, the last
\* of them 10_1.png.
C2_Witness ==
    /\ spc = "done" /\ src.status = "ok" /\ chunk_size = 1
    /\ src.img.w = 2 /\ src.img.h = 11
    /\ Len(written) = 22
    /\ written[3] = <<"1", "_", "0", ".", "p", "n", "g">>
    /\ written[22] = <<"1", "0", "_", "1", ".", "p", "n", "g">>

\* C3: every tile written is C x C; inside the crop, pixel (i, j) of tile
\* (row, col) is source pixel (col*C + i, row*C + j); every pixel of a tile
\* outside the crop is fully transparent.
C3_TileContents ==
    (src.status = "ok" /\ chunk_size >= 1) =>
        \A k \in 1..Len(written) :
            LET cols == CeilOf(src.img.w, chunk_size)
                r == (k - 1) \div cols
                c == (k - 1) % cols
                tile == disk[written[k]].img
            IN  /\ disk[written[k]].status = "ok"
                /\ tile.w = chunk_size /\ tile.h = chunk_size
                /\ DOMAIN tile.px = Positions(chunk_size, chunk_size)
                /\ \A p \in Positions(chunk_size, chunk_size) :
                      LET x == c * chunk_size + p[1]
                          y == r * chunk_size + p[2]
                      IN  IF x < src.img.w /\ y < src.img.h
                          THEN tile.px[p] = src.img.px[<<x, y>>]
                          ELSE tile.px[p].a = 0

\* An edge tile has been written: the crop is smaller than the chunk in both
\* directions, and the tile holds source pixels and transparent padding.
C3_Witness ==
    /\ src.status = "ok" /\ chunk_size = 2 /\ src.img.w = 3 /\ src.img.h = 3
    /\ TileFilename(1, 1) \in SeqRange(written)
    /\ disk[TileFilename(1, 1)].img.px[<<0, 0>>] = src.img.px[<<2, 2>>]
    /\ disk[TileFilename(1, 1)].img.px[<<1, 1>>].a = 0

\* C1: slicing a W x H image with chunk size C >= 1 and stitching the tiles by
\* their {row}_{col} names on a transparent background builds a canvas of
\* ceil(W/C)*C by ceil(H/C)*C pixels whose top-left W x H region equals the
\* source and whose other pixels are fully transparent; the stitch neither
\* raises nor skips a tile, and an output format with alpha keeps the canvas.
C1_RoundTrip ==
    (caller = "roundtrip" /\ src.status = "ok" /\ chunk_size >= 1) =>
        /\ st_pc # "raised" /\ failed = {} /\ lpc # "unlocated"
        /\ st_pc = "saved" =>
              /\ canvas.w = CeilOf(src.img.w, chunk_size) * chunk_size
              /\ canvas.h = CeilOf(src.img.h, chunk_size) * chunk_size
              /\ \A p \in Positions(canvas.w, canvas.h) :
                    IF p[1] < src.img.w /\ p[2] < src.img.h
                    THEN CanvasPixel(canvas, p) = src.img.px[p]
                    ELSE CanvasPixel(canvas, p).a = 0
              /\ ~st_call.out_bmp => saved = canvas

\* The round trip is complete for a source with incomplete last row and column
\* and an alpha channel.
C1_Witness ==
    /\ caller = "roundtrip" /\ st_pc = "saved" /\ src.status = "ok"
    /\ src.img.w = 3 /\ src.img.h = 5 /\ chunk_size = 2 /\ src.img.mode = "RGBA"
    /\ Len(canvas.pastes) = 6
    /\ CanvasPixel(canvas, <<2, 4>>) = src.img.px[<<2, 4>>]
    /\ CanvasPixel(canvas, <<3, 5>>).a = 0

----------------------------------------------------------------------------
(* Specification SpecStitch: discovery, location and stitch over a          *)
(* directory of brushed tiles, as the command runs them ("main") and as a   *)
(* caller of the functions with its own stitch arguments ("api")            *)

MaxTiles == 3

StitchPool ==
    { BrushedTileName(0, 0), BrushedTileName(0, 1),
      BrushedTileName(1, 1), BrushedTileName(1, 2),
      \* t-1-2_brushed.png
      <<"t", "-", "1", "-", "2">> \o BrushedSuffix \o Str_png,
      \* a_brushed.png
      <<"a">> \o BrushedSuffix \o Str_png }

\* <<width, height>> of the tiles of a directory.
TileDims == {<<1, 1>>, <<2, 1>>, <<1, 2>>, <<4, 4>>}

ExplicitTileSizes == {1, 2}

\* Every tile has its own opaque colour, none of them black.
TileColour(nm) == 1 + (CHOOSE i \in 1..Cardinality(StitchPool) : Sorted(StitchPool)[i] = nm)

\* At most one tile of a directory differs from the others: its header or its
\* data is corrupt, or it is one pixel wider.
Defects(S) ==
    {[kind |-> "none", file |-> <<>>]}
        \cup {[kind |-> k, file |-> f] : k \in {"badheader", "baddata", "odd"}, f \in S}

\* Brushed tiles are written without alpha channel.
TileFile(nm, dims, defect) ==
    [status |-> IF defect.file = nm /\ defect.kind \in {"badheader", "baddata"}
                THEN defect.kind ELSE "ok",
     img |-> NewImage("RGB",
                      IF defect.file = nm /\ defect.kind = "odd" THEN dims[1] + 1 ELSE dims[1],
                      dims[2],
                      [c |-> TileColour(nm), a |-> Opaque])]

StitchOptions ==
    {[tile_size_given |-> FALSE, tile_size |-> 0, background |-> b, out_bmp |-> o] :
        b \in {"none", "#000000", "#000000ff"}, o \in BOOLEAN}
    \cup
    {[tile_size_given |-> TRUE, tile_size |-> t, background |-> b, out_bmp |-> o] :
        t \in ExplicitTileSizes, b \in {"none", "#000000", "#000000ff"}, o \in BOOLEAN}

InitStitch ==
    /\ \E S \in SUBSET StitchPool, dims \in TileDims :
          /\ Cardinality(S) >= 1 /\ Cardinality(S) <= MaxTiles
          /\ listing = S
          /\ \E defect \in Defects(S) : disk = [n \in S |-> TileFile(n, dims, defect)]
    /\ caller \in {"main", "api"}
    /\ opts \in StitchOptions
    /\ files = <<>> /\ layout = NoLayout /\ strategy = "none" /\ lpc = "start"
    /\ IdleParse /\ IdleSlice
    /\ st_call = NoOpts /\ tile_w = 0 /\ tile_h = 0
    /\ canvas = NoImage /\ st_i = 0 /\ failed = {} /\ saved = NoImage
    /\ st_pc = "idle"
    /\ IdleBrush /\ IdleBatch /\ IdleRun /\ IdleProxy /\ IdleEntry

NextStitch ==
    \/ MainFindImages \/ MainArrange
    \/ StitchCall \/ StitchBegin \/ StitchPaste \/ StitchSave

SpecStitch == InitStitch /\ [][NextStitch]_vars

OkEntry(e) == disk[e[2]].status = "ok"

\* The entries of the mapping the loop has pasted so far, in its order.
PastedEntries == SelectSeq(SubSeq(layout.mapping, 1, st_i - 1), OkEntry)

\* C8: the canvas is (max_x - min_x + 1) * tile_w by (max_y - min_y + 1) * tile_h,
\* and the tile of entry (col, row) is pasted with its top-left corner at
\* ((col - min_x) * tile_w, (row - min_y) * tile_h), a position of the canvas,
\* whatever min_x and min_y are.
C8_StitchGeometry ==
    st_pc \in {"paste", "saved"} =>
        /\ canvas.w = (layout.max_x - layout.min_x + 1) * tile_w
        /\ canvas.h = (layout.max_y - layout.min_y + 1) * tile_h
        /\ Len(canvas.pastes) = Len(PastedEntries)
        /\ \A k \in 1..Len(canvas.pastes) :
              LET key == PastedEntries[k][1]
                  ps == canvas.pastes[k]
              IN  /\ ps.x = (key[1] - layout.min_x) * tile_w
                  /\ ps.y = (key[2] - layout.min_y) * tile_h
                  /\ ps.x >= 0 /\ ps.x < canvas.w
                  /\ ps.y >= 0 /\ ps.y < canvas.h
                  /\ ps.im = Convert(disk[PastedEntries[k][2]].img, canvas.mode)

\* A finished stitch of a layout whose least column and least row are not 0,
\* with a tile pasted away from the origin.
C8_Witness ==
    /\ st_pc = "saved"
    /\ layout.min_x # 0 /\ layout.min_y # 0
    /\ layout.max_x > layout.min_x
    /\ \E k \in 1..Len(canvas.pastes) : canvas.pastes[k].x > 0

BadFiles == {n \in DOMAIN disk : disk[n].status # "ok"}

\* The positions of the canvas that belong to the cell of key (x, y).
CellPositions(key) ==
    {p \in ((key[1] - layout.min_x) * tile_w .. (key[1] - layout.min_x + 1) * tile_w - 1)
           \X ((key[2] - layout.min_y) * tile_h .. (key[2] - layout.min_y + 1) * tile_h - 1) :
        p[1] < canvas.w /\ p[2] < canvas.h}

\* C9: with a single tile that fails to decode, whichever entry it is and
\* whether the tile size is given or inferred, stitch does not abort: it pastes
\* every other tile, leaves the background in the cell of the failed tile, and
\* saves the composite.
C9_SingleFailureTolerated ==
    (st_pc \in {"raised", "saved"} /\ Cardinality(BadFiles) = 1) =>
        /\ st_pc = "saved"
        /\ saved # NoImage
        /\ failed = BadFiles
        /\ Len(canvas.pastes) = Len(layout.mapping) - 1
        /\ \A i \in 1..Len(layout.mapping) :
              IF layout.mapping[i][2] \in BadFiles
              THEN \A p \in CellPositions(layout.mapping[i][1]) :
                      CanvasPixel(canvas, p) = canvas.bg
              ELSE \E k \in 1..Len(canvas.pastes) :
                      /\ canvas.pastes[k].im.px[<<0, 0>>].c = TileColour(layout.mapping[i][2])
                      /\ <<canvas.pastes[k].x, canvas.pastes[k].y>> =
                            PasteOffset(layout.mapping[i][1][1], layout.mapping[i][1][2],
                                        layout.min_x, layout.min_y, tile_w, tile_h)

FullyCovered ==
    DictKeys(layout.mapping) =
        (layout.min_x..layout.max_x) \X (layout.min_y..layout.max_y)

FirstTile == disk[layout.mapping[1][2]]

NoBackgroundVisible(cv) ==
    \A p \in Positions(cv.w, cv.h) : CanvasPixel(cv, p).c # cv.bg.c

\* C10 (as stated): when every position of the bounding box holds a decodable
\* opaque tile and the user gives no tile size, the tile size is that of the
\* tiles and the composite has no background pixel, for the command with its
\* defaults as for stitch() called without tile size.
C10_NoBackgroundWithoutTileSize ==
    (st_pc = "saved" /\ ~opts.tile_size_given /\ FullyCovered /\ BadFiles = {}) =>
        /\ tile_w = FirstTile.img.w /\ tile_h = FirstTile.img.h
        /\ NoBackgroundVisible(saved)

SameDimensions ==
    \A n \in DOMAIN disk :
        disk[n].img.w = FirstTile.img.w /\ disk[n].img.h = FirstTile.img.h

\* C10 (amended): when every position of the bounding box holds a decodable
\* opaque tile, all tiles have the same dimensions and stitch() is called
\* without a tile size, the tile size is that of the tiles and the composite has
\* no background pixel. The stitch command always passes a tile size, 1024 when
\* the user gives none, so the same holds for it only with tiles of that size.
C10_NoBackgroundWhenInferred ==
    /\ (st_pc = "saved" /\ caller = "api" /\ ~opts.tile_size_given
           /\ FullyCovered /\ BadFiles = {} /\ SameDimensions) =>
          /\ tile_w = FirstTile.img.w /\ tile_h = FirstTile.img.h
          /\ NoBackgroundVisible(saved)
    /\ (st_pc = "saved" /\ caller = "main" /\ ~opts.tile_size_given) =>
          tile_w = DefaultTileSize /\ tile_h = DefaultTileSize

\* Two 4 x 4 tiles side by side on an opaque black background, stitched without
\* a tile size: an 8 x 4 composite.
C10_Witness ==
    /\ st_pc = "saved" /\ caller = "api" /\ ~opts.tile_size_given
    /\ opts.background = "#000000"
    /\ files = <<BrushedTileName(0, 0), BrushedTileName(0, 1)>>
    /\ BadFiles = {} /\ SameDimensions
    /\ saved.w = 8 /\ saved.h = 4
    /\ NoBackgroundVisible(saved)

----------------------------------------------------------------------------
(* The order of pasting and conversion in stitch                           *)

\* The mode of every tile pasted so far is the mode of the canvas, and the
\* canvas the loop pastes onto has not been converted.
PastesInCanvasMode ==
    \A k \in 1..Len(canvas.pastes) : canvas.pastes[k].im.mode = canvas.mode

\* C11 (as stated): whatever the background colour, the canvas has an alpha
\* channel while tiles are pasted; for a .bmp path it is converted to an
\* alpha-free mode after the last paste, for the save.
C11_NeverPastedOnAlphaFree ==
    /\ st_pc = "paste" => canvas.mode = "RGBA" /\ PastesInCanvasMode
    /\ (st_pc = "saved" /\ st_call.out_bmp) =>
          /\ canvas.mode = "RGBA"
          /\ saved = CanvasConvert(canvas, "RGB")

\* C11 (amended): the canvas has an alpha channel while tiles are pasted exactly
\* when the fill colour is a 4-tuple (the default, or an 8-digit hex colour),
\* and then, for a .bmp path, what is saved is the canvas converted to RGB after
\* the last paste; with a 3-tuple fill colour the canvas is RGB from Image.new
\* on, every tile is converted to RGB and pasted onto it, and it is saved as it
\* is. Without a .bmp path the canvas is saved unconverted.
C11_ConvertedAfterLastPaste ==
    /\ st_pc \in {"paste", "saved"} =>
          /\ canvas.mode = (IF st_call.fill.n = 4 THEN "RGBA" ELSE "RGB")
          /\ PastesInCanvasMode
    /\ st_pc = "saved" =>
          /\ st_i = Len(layout.mapping) + 1
          /\ saved.pastes = [k \in 1..Len(canvas.pastes) |->
                                [canvas.pastes[k] EXCEPT !.im = Convert(@, saved.mode)]]
          /\ saved.mode = (IF st_call.out_bmp THEN "RGB" ELSE canvas.mode)

\* A .bmp composite of two tiles pasted onto a transparent canvas.
C11_Witness ==
    /\ st_pc = "saved" /\ st_call.out_bmp /\ st_call.fill.n = 4
    /\ Len(canvas.pastes) = 2
    /\ canvas.mode = "RGBA" /\ saved.mode = "RGB"
    /\ saved.bg.a = Opaque /\ canvas.bg.a = 0

----------------------------------------------------------------------------
(* auto_airbrush.py                                                        *)
(* A tile file holds [w, h, ch, px]: ch is 3 or 4, px gives [b, g, r, a]   *)
(* for every position, a = 255 where the file has no alpha channel.  What  *)
(* cv2.imread(path, IMREAD_COLOR) returns is [w, h, px] with px giving     *)
(* <<b, g, r>>; a mask is [w, h, px] with px giving 0 or 255.              *)

SAT_THRESHOLD == 40
VAL_THRESHOLD == 120
RGB_DIFF_THRESHOLD == 20
DILATE_ITER == 2

Max3(a, b, c) == SetMax({a, b, c})
Min3(a, b, c) == SetMin({a, b, c})

\* cv2.absdiff on uint8
AbsDiff(a, b) == IF a >= b THEN a - b ELSE b - a

\* The V channel of cv2.cvtColor(img, COLOR_BGR2HSV) for 8-bit images.
HsvValue(bgr) == Max3(bgr[1], bgr[2], bgr[3])

\* The S channel for 8-bit images: 255 * (V - min) / V in the fixed-point
\* arithmetic of the conversion (a table of round(255 * 2^12 / V), 12 bits
\* dropped after rounding), 0 for V = 0.
HsvSaturation(bgr) ==
    LET v == HsvValue(bgr)
        diff == v - Min3(bgr[1], bgr[2], bgr[3])
        sdiv == (2 * 255 * 4096 + v) \div (2 * v)
    IN  IF v = 0 THEN 0 ELSE (diff * sdiv + 2048) \div 4096

\* Lines 55-65 for one pixel with the value test left out.
GrayishPixelAnyValue(bgr) ==
    IF /\ HsvSaturation(bgr) <= SAT_THRESHOLD
       /\ AbsDiff(bgr[1], bgr[2]) <= RGB_DIFF_THRESHOLD
       /\ AbsDiff(bgr[1], bgr[3]) <= RGB_DIFF_THRESHOLD
       /\ AbsDiff(bgr[2], bgr[3]) <= RGB_DIFF_THRESHOLD
    THEN 255 ELSE 0

\* Lines 55-65 for one pixel: (cond1 & cond2) * 255.
GrayishPixel(bgr) ==
    IF /\ HsvSaturation(bgr) <= SAT_THRESHOLD /\ HsvValue(bgr) >= VAL_THRESHOLD
       /\ AbsDiff(bgr[1], bgr[2]) <= RGB_DIFF_THRESHOLD
       /\ AbsDiff(bgr[1], bgr[3]) <= RGB_DIFF_THRESHOLD
       /\ AbsDiff(bgr[2], bgr[3]) <= RGB_DIFF_THRESHOLD
    THEN 255 ELSE 0

is_grayish_mask_bgr(img) ==
    [w |-> img.w, h |-> img.h,
     px |-> [p \in Positions(img.w, img.h) |-> GrayishPixel(img.px[p])]]

\* cv2.getStructuringElement(MORPH_ELLIPSE, (3, 3)): the centre and its four
\* neighbours, as offsets from the anchor.
Kernel == {<<0, 0>>, <<1, 0>>, <<0 - 1, 0>>, <<0, 1>>, <<0, 0 - 1>>}

\* The positions of the mask under the kernel anchored at p; what lies outside
\* the mask takes no part (the default border of cv2.dilate and cv2.erode).
Under(m, p) ==
    {q \in Positions(m.w, m.h) : <<q[1] - p[1], q[2] - p[2]>> \in Kernel}

\* cv2.dilate with a border that counts as set.
DilateBorderSet(m) ==
    [m EXCEPT !.px = [p \in Positions(m.w, m.h) |->
        IF \/ \E q \in Under(m, p) : m.px[q] = 255
           \/ Cardinality(Under(m, p)) < Cardinality(Kernel)
        THEN 255 ELSE 0]]

\* cv2.dilate(m, kernel, iterations=1): the maximum under the kernel.
Dilate(m) ==
    [m EXCEPT !.px = [p \in Positions(m.w, m.h) |->
        IF \E q \in Under(m, p) : m.px[q] = 255 THEN 255 ELSE 0]]

\* cv2.erode(m, kernel, iterations=1): the minimum under the kernel.
Erode(m) ==
    [m EXCEPT !.px = [p \in Positions(m.w, m.h) |->
        IF \A q \in Under(m, p) : m.px[q] = 255 THEN 255 ELSE 0]]

RECURSIVE DilateTimes(_, _)
DilateTimes(m, n) == IF n = 0 THEN m ELSE DilateTimes(Dilate(m), n - 1)

\* Lines 69-77: closing, opening, DILATE_ITER dilations.
refine_mask(mask) ==
    LET closed == Erode(Dilate(mask))
        opened == Dilate(Erode(closed))
    IN  DilateTimes(opened, DILATE_ITER)

\* cv2.countNonZero(mask)
CountNonZero(m) == Cardinality({p \in Positions(m.w, m.h) : m.px[p] # 0})

\* cv2.imread(path, cv2.IMREAD_COLOR): three channels, whatever the file has.
ImreadColor(file) ==
    IF file.status # "ok" THEN NoImage
    ELSE [w |-> file.img.w, h |-> file.img.h,
          px |-> [p \in Positions(file.img.w, file.img.h) |->
                     <<file.img.px[p].b, file.img.px[p].g, file.img.px[p].r>>]]

\* The file cv2.imwrite makes of a BGR image: a PNG without alpha channel.
BgrFile(img) ==
    [status |-> "ok",
     img |-> [w |-> img.w, h |-> img.h, ch |-> 3,
              px |-> [p \in Positions(img.w, img.h) |->
                         [b |-> img.px[p][1], g |-> img.px[p][2], r |-> img.px[p][3],
                          a |-> Opaque]]]]

\* The file cv2.imwrite makes of a mask: one channel.
MaskFile(m) ==
    [status |-> "ok",
     img |-> [w |-> m.w, h |-> m.h, ch |-> 1,
              px |-> [p \in Positions(m.w, m.h) |->
                         [b |-> m.px[p], g |-> m.px[p], r |-> m.px[p], a |-> Opaque]]]]

\* Lines 147-169: the tile inpainted under the mask, blended towards the mean
\* green and blurred.  The values are those of cv2.inpaint and
\* cv2.GaussianBlur, which are not computed here: every pixel is the term
\* naming it.
Airbrushed(img, mask) ==
    [w |-> img.w, h |-> img.h,
     px |-> [p \in Positions(img.w, img.h) |->
                <<[blurred |-> p, channel |-> "b"],
                  [blurred |-> p, channel |-> "g"],
                  [blurred |-> p, channel |-> "r"]>>]]

\* Line 148: the tile inpainted under the mask.  The values are those of
\* cv2.inpaint, which are not computed here: every pixel is the term naming it.
Inpainted(img, mask) ==
    [w |-> img.w, h |-> img.h,
     px |-> [p \in Positions(img.w, img.h) |->
                <<[inpainted |-> p, channel |-> "b"],
                  [inpainted |-> p, channel |-> "g"],
                  [inpainted |-> p, channel |-> "r"]>>]]

Str_mask == <<"_", "m", "a", "s", "k">>

Str_inpainted == <<"_", "i", "n", "p", "a", "i", "n", "t", "e", "d">>

\* Lines 128-130: f"{base_name}_brushed.png" and f"{base_name}_mask.png".
OutBrushed(path) == SplitextRoot(Basename(path)) \o BrushedSuffix \o Str_png
OutMask(path) == SplitextRoot(Basename(path)) \o Str_mask \o Str_png
OutInpainted(path) == SplitextRoot(Basename(path)) \o Str_inpainted \o Str_png

\* Lines 139-179: what is written as {base}_brushed.png for a decoded image
\* and its refined mask.
BrushedImage(img, mask) ==
    IF CountNonZero(mask) = 0 THEN img ELSE Airbrushed(img, mask)

\* process_image_file(path, output_dir, save_debug=False) on a directory d
\* that holds the input file: the return value and the directory afterwards.
\* cv2.imread gives None for a file it cannot decode and raises cv2.error for
\* an image above its pixel limit.
process_image_file(d, path) ==
    LET img == ImreadColor(d[path])
        mask == refine_mask(is_grayish_mask_bgr(img))
    IN  IF d[path].status = "too_large" THEN [ret |-> "raised", dir |-> d]
        ELSE IF img = NoImage THEN [ret |-> "False", dir |-> d]
        ELSE [ret |-> "True",
              dir |-> WriteFile(WriteFile(d, OutBrushed(path), BgrFile(BrushedImage(img, mask))),
                                OutMask(path), MaskFile(mask))]

----------------------------------------------------------------------------
(* The entry points and their test of the input                            *)

\* output, the directory of the tiles
Str_output == <<"o", "u", "t", "p", "u", "t">>

\* airbrush_cli.py line 29, os.makedirs(out_dir, exist_ok=True): a missing
\* directory is made, a file of that name raises FileExistsError.
Makedirs(dir) ==
    CASE dir = "missing" -> [raised |-> FALSE, dir |-> "dir", made |-> {Str_output}]
      [] dir = "file" -> [raised |-> TRUE, dir |-> dir, made |-> {}]
      [] dir = "dir" -> [raised |-> FALSE, dir |-> dir, made |-> {}]

\* _stitch_brushed.py lines 171-174: return 2 unless the input is a directory.
MainEntry ==
    /\ entry = "stitch_main" /\ status = "none" /\ lpc = "entry"
    /\ IF fs_input # "dir"
       THEN status' = "2" /\ lpc' = "exit2"
       ELSE lpc' = "start" /\ UNCHANGED status
    /\ UNCHANGED <<listing, caller, files, layout, strategy, entry, fs_input, created, disk,
                   varsParse, varsSlice, varsStitch, varsAirbrush, varsRun, varsProxy>>

\* airbrush_cli.py lines 22-36: the output directory is made, then the input
\* file is tested (return 2), then process_image_file is called.
RunSingle ==
    /\ entry = "run_single" /\ status = "none" /\ ab_pc = "entry"
    /\ LET present == fs_input = "dir" /\ ab_path \in DOMAIN disk
           made == Makedirs(fs_input)
       IN  /\ fs_input' = made.dir
           /\ created' = created \cup made.made
           /\ IF made.raised THEN status' = "raised" /\ ab_pc' = "exit"
              ELSE IF ~present THEN status' = "2" /\ ab_pc' = "exit"
              ELSE ab_pc' = "start" /\ UNCHANGED status
    /\ UNCHANGED <<ab_path, ab_img, ab_raw, ab_mask, ab_ret, save_debug, ab_green, ab_filled, ab_blended, entry, disk,
                   varsParse, varsLocate, varsSlice, varsStitch, varsBatch, varsRun, varsProxy>>

\* airbrush_cli.py lines 36-38: 0 for True, 1 for False; an exception of
\* process_image_file is not caught.
RunSingleReturn ==
    /\ entry = "run_single" /\ status = "none" /\ ab_pc \in {"done", "raised"}
    /\ status' = IF ab_pc = "raised" THEN "raised"
                 ELSE IF ab_ret = "True" THEN "0" ELSE "1"
    /\ UNCHANGED <<varsBrush, entry, fs_input, created, disk,
                   varsParse, varsLocate, varsSlice, varsStitch, varsBatch, varsRun, varsProxy>>

\* image_slicer.py lines 115-121: without the input image main prints and
\* returns; else slice_image is called with chunk_size 1024.
SlicerMain ==
    /\ entry = "slicer_main" /\ status = "none" /\ spc = "entry"
    /\ IF src = NoImage
       THEN status' = "None" /\ spc' = "exit" /\ UNCHANGED chunk_size
       ELSE chunk_size' = DefaultTileSize /\ spc' = "start" /\ UNCHANGED status
    /\ UNCHANGED <<src, row, col, written, entry, fs_input, created, disk,
                   varsParse, varsLocate, varsStitch, varsAirbrush, varsRun, varsProxy>>

----------------------------------------------------------------------------
(* Specification SpecBrush: process_image_file on one tile of the output    *)
(* directory, step by step, as run_single calls it                          *)

MaxTileW == 3
MaxTileH == 2

\* Channel values around the thresholds of the classifier.
ChannelValues == {0, 100, 105, 106, 119, 120, 125, 126, 130, 150, 151, 255}

MidGray == [b |-> 150, g |-> 150, r |-> 150, a |-> Opaque]
PureGreen == [b |-> 0, g |-> 255, r |-> 0, a |-> Opaque]
Padding == [b |-> 0, g |-> 0, r |-> 0, a |-> 0]

\* One-pixel tiles of every colour over ChannelValues.
OnePixelTiles ==
    {[w |-> 1, h |-> 1, ch |-> 3,
      px |-> [p \in Positions(1, 1) |-> [b |-> b, g |-> g, r |-> r, a |-> Opaque]]] :
        b \in ChannelValues, g \in ChannelValues, r \in ChannelValues}

\* Tiles of mid-gray and green pixels; a tile with alpha channel is an edge tile
\* of the slicer, its last column transparent padding.
PaletteTiles ==
    UNION {{[w |-> w, h |-> h, ch |-> ch,
             px |-> [p \in Positions(w, h) |->
                        IF ch = 4 /\ p[1] = w - 1 THEN Padding ELSE colour[p]]] :
               colour \in [Positions(w, h) -> {MidGray, PureGreen}], ch \in {3, 4}} :
           w \in 1..MaxTileW, h \in 1..MaxTileH}

\* 7_7.png
Str_7_7 == TileFilename(7, 7)

InitBrush ==
    /\ ab_path = Str_7_7
    /\ \E file \in {[status |-> "ok", img |-> t] : t \in OnePixelTiles \cup PaletteTiles}
                   \cup {[status |-> st, img |-> NewImage("RGB", 1, 1, Padding)] :
                            st \in {"undecodable", "too_large"}} :
          disk = [n \in {ab_path} |-> file]
    /\ ab_img = NoImage /\ ab_raw = NoImage /\ ab_mask = NoImage
    /\ ab_ret = "none" /\ ab_pc = "start"
    /\ save_debug \in BOOLEAN
    /\ ab_green = None /\ ab_filled = NoImage /\ ab_blended = NoImage
    /\ entry = "run_single" /\ fs_input = "dir" /\ status = "none" /\ created = {}
    /\ IdleParse /\ IdleLocate /\ IdleSlice /\ IdleStitch
    /\ IdleBatch /\ IdleRun /\ IdleProxy

\* Lines 118-121: the image is read; None gives the message and False.
AbRead ==
    /\ ab_pc = "start"
    /\ IF disk[ab_path].status = "too_large"
       THEN ab_pc' = "raised" /\ UNCHANGED <<ab_img, ab_ret>>
       ELSE /\ ab_img' = ImreadColor(disk[ab_path])
            /\ IF ab_img' = NoImage
               THEN ab_ret' = "False" /\ ab_pc' = "done"
               ELSE ab_pc' = "read" /\ UNCHANGED ab_ret
    /\ UNCHANGED <<ab_path, ab_raw, ab_mask, save_debug, ab_green, ab_filled, ab_blended, disk,
                   varsParse, varsLocate, varsSlice, varsStitch, varsBatch, varsRun, varsProxy, varsEntry>>

\* Line 136.
AbClassify ==
    /\ ab_pc = "read"
    /\ ab_raw' = is_grayish_mask_bgr(ab_img)
    /\ ab_pc' = "classified"
    /\ UNCHANGED <<ab_path, ab_img, ab_mask, ab_ret, save_debug, ab_green, ab_filled, ab_blended, disk,
                   varsParse, varsLocate, varsSlice, varsStitch, varsBatch, varsRun, varsProxy, varsEntry>>

\* Line 137.
AbRefine ==
    /\ ab_pc = "classified"
    /\ ab_mask' = refine_mask(ab_raw)
    /\ ab_pc' = "refined"
    /\ UNCHANGED <<ab_path, ab_img, ab_raw, ab_ret, save_debug, ab_green, ab_filled, ab_blended, disk,
                   varsParse, varsLocate, varsSlice, varsStitch, varsBatch, varsRun, varsProxy, varsEntry>>

\* Lines 139-179: the copy when the mask is empty, else the airbrushed tile;
\* the mask is written in both cases; the inpainted image is written when the
\* mask is not empty and the debug flag is set.
AbWrite ==
    /\ ab_pc = "refined"
    /\ LET result == WriteFile(WriteFile(disk, OutBrushed(ab_path),
                                         BgrFile(BrushedImage(ab_img, ab_mask))),
                               OutMask(ab_path), MaskFile(ab_mask))
       IN  disk' = IF CountNonZero(ab_mask) # 0 /\ save_debug
                   THEN WriteFile(result, OutInpainted(ab_path),
                                  BgrFile(Inpainted(ab_img, ab_mask)))
                   ELSE result
    /\ ab_ret' = "True"
    /\ ab_pc' = "done"
    /\ UNCHANGED <<ab_path, ab_img, ab_raw, ab_mask, save_debug, ab_green, ab_filled, ab_blended,
                   varsParse, varsLocate, varsSlice, varsStitch, varsBatch, varsRun, varsProxy, varsEntry>>

NextBrush == AbRead \/ AbClassify \/ AbRefine \/ AbWrite \/ RunSingleReturn

SpecBrush == InitBrush /\ [][NextBrush]_vars

\* C12: a pixel (B, G, R) is flagged (255) exactly when its value, the largest
\* channel, is at least 120, its channels differ pairwise by at most 20, and its
\* saturation 255 * (max - min) / max rounds to at most 40; every other pixel
\* gets 0.  So mid-gray (150, 150, 150) is flagged and pure green is not.
C12_ClassifierRule ==
    ab_pc \in {"classified", "refined", "done"} /\ ab_raw # NoImage =>
        /\ ab_raw.w = ab_img.w /\ ab_raw.h = ab_img.h
        /\ \A p \in Positions(ab_img.w, ab_img.h) :
              LET hi == Max3(ab_img.px[p][1], ab_img.px[p][2], ab_img.px[p][3])
                  lo == Min3(ab_img.px[p][1], ab_img.px[p][2], ab_img.px[p][3])
                  flagged == /\ hi >= 120
                             /\ hi - lo <= 20
                             /\ 2 * 255 * (hi - lo) < 81 * hi
              IN  /\ ab_raw.px[p] = (IF flagged THEN 255 ELSE 0)
                  /\ ab_img.px[p] = <<150, 150, 150>> => ab_raw.px[p] = 255
                  /\ ab_img.px[p] = <<0, 255, 0>> => ab_raw.px[p] = 0

\* A classified tile with a flagged mid-gray pixel and an unflagged green one.
C12_Witness ==
    /\ ab_pc = "classified"
    /\ \E p \in Positions(ab_img.w, ab_img.h) :
          ab_img.px[p] = <<150, 150, 150>> /\ ab_raw.px[p] = 255
    /\ \E p \in Positions(ab_img.w, ab_img.h) :
          ab_img.px[p] = <<0, 255, 0>> /\ ab_raw.px[p] = 0

\* C13: refine_mask of a mask without flagged pixel is a mask without flagged
\* pixel, of the same width and height.
C13_RefineEmpty ==
    (ab_pc \in {"refined", "done"} /\ ab_mask # NoImage /\ CountNonZero(ab_raw) = 0) =>
        /\ ab_mask.w = ab_raw.w /\ ab_mask.h = ab_raw.h
        /\ \A p \in Positions(ab_raw.w, ab_raw.h) : ab_mask.px[p] = 0

\* The mask of an all-green tile of the largest size, refined.
C13_Witness ==
    /\ ab_pc = "refined"
    /\ ab_raw.w = MaxTileW /\ ab_raw.h = MaxTileH
    /\ CountNonZero(ab_raw) = 0 /\ CountNonZero(ab_mask) = 0

\* C14: a decodable tile whose refined mask is empty gets {base}_brushed.png
\* written, True returned, and the file written has the channels of the input
\* and the input's value in every channel of every pixel.
C14_FillerIdentity ==
    (ab_pc = "done" /\ disk[ab_path].status = "ok" /\ CountNonZero(ab_mask) = 0) =>
        /\ ab_ret = "True"
        /\ OutBrushed(ab_path) \in DOMAIN disk
        /\ disk[OutBrushed(ab_path)].img.ch = disk[ab_path].img.ch
        /\ disk[OutBrushed(ab_path)].img.px = disk[ab_path].img.px

----------------------------------------------------------------------------
(* main of auto_airbrush.py                                                *)

Str_txt == <<".", "t", "x", "t">>

\* Line 198
ImageExts ==
    {Str_png, <<".", "j", "p", "g">>, <<".", "j", "p", "e", "g">>, Str_bmp,
     <<".", "t", "i", "f">>, <<".", "t", "i", "f", "f">>}

\* Line 200: f.lower().endswith(exts), for names without capitals.
HasImageExt(nm) == \E ext \in ImageExts : EndsWith(nm, ext)

Reverse(q) == [k \in 1..Len(q) |-> q[Len(q) + 1 - k]]

Rotate(q, n) == [k \in 1..Len(q) |-> q[((k - 1 + n) % Len(q)) + 1]]

\* Orders os.listdir may give the names of S in: it promises none.  These are
\* the sorted order and its reverse, started at every name.
ListdirOrders(S) ==
    IF S = {} THEN {<<>>}
    ELSE {Rotate(Sorted(S), n) : n \in 0..(Cardinality(S) - 1)}
         \cup {Rotate(Reverse(Sorted(S)), n) : n \in 0..(Cardinality(S) - 1)}

\* The loop left at the first file that raises.
LoopAfterUncaught(ret, i, n) ==
    IF ret = "raised" THEN "raised" ELSE IF i < n THEN "loop" ELSE "done"

\* Lines 206-216: after file i of n the loop goes on or ends, whatever
\* process_image_file returned or raised.
LoopAfter(ret, i, n) == IF i < n THEN "loop" ELSE "done"

\* What the caller gets when main has returned: main has no return value, and
\* run_all of airbrush_cli.py returns 0 after it (lines 41-44).
ReturnOfMain(e) == IF e = "run_all" THEN "0" ELSE "None"

\* Lines 191-205: the directory test, the list of image files, the early
\* return when there is none.
BatchStart ==
    /\ bt_pc = "start"
    /\ IF fs_input # "dir"
       THEN bt_pc' = "exit" /\ UNCHANGED bt_files
       ELSE /\ bt_files' \in ListdirOrders({n \in DOMAIN disk : HasImageExt(n)})
            /\ bt_pc' = IF bt_files' = <<>> THEN "exit" ELSE "loop"
    /\ bt_i' = 1
    /\ status' = IF bt_pc' = "exit" THEN ReturnOfMain(entry) ELSE status
    /\ UNCHANGED <<bt_log, bt_run, bt_first, disk, varsBrush, entry, fs_input, created,
                   varsParse, varsLocate, varsSlice, varsStitch, varsRun, varsProxy>>

\* Lines 206-216: one turn of the loop, and "Done." after the last.
BatchStep ==
    /\ bt_pc = "loop"
    /\ LET fname == bt_files[bt_i]
           res == process_image_file(disk, fname)
       IN  /\ disk' = res.dir
           /\ bt_log' = IF res.ret = "True" THEN bt_log ELSE bt_log \cup {fname}
           /\ bt_pc' = LoopAfter(res.ret, bt_i, Len(bt_files))
    /\ bt_i' = bt_i + 1
    /\ status' = IF bt_pc' = "done" THEN ReturnOfMain(entry) ELSE status
    /\ UNCHANGED <<bt_files, bt_run, bt_first, varsBrush, entry, fs_input, created,
                   varsParse, varsLocate, varsSlice, varsStitch, varsRun, varsProxy>>

\* main is run a second time over the directory.
BatchAgain ==
    /\ bt_pc = "done" /\ bt_run = 1
    /\ bt_first' = DOMAIN disk
    /\ bt_run' = 2
    /\ bt_files' = <<>> /\ bt_i' = 0 /\ bt_log' = {}
    /\ bt_pc' = "start"
    /\ status' = "none"
    /\ UNCHANGED <<disk, varsBrush, entry, fs_input, created,
                   varsParse, varsLocate, varsSlice, varsStitch, varsRun, varsProxy>>

----------------------------------------------------------------------------
(* Specification SpecBatch: auto_airbrush.main over a directory of tiles,   *)
(* run once and run again                                                   *)

MaxBatch == 2

BatchPool == {TileFilename(0, 0), TileFilename(0, 1), TileFilename(1, 0)}

\* notes.txt
Str_notes == <<"n", "o", "t", "e", "s">> \o Str_txt

\* A one-pixel green tile, decodable or not.
BatchTile(st) ==
    [status |-> st,
     img |-> [w |-> 1, h |-> 1, ch |-> 3, px |-> [p \in Positions(1, 1) |-> PureGreen]]]

InitBatch ==
    /\ \E S \in SUBSET BatchPool, others \in SUBSET {Str_notes} :
          /\ Cardinality(S) <= MaxBatch
          /\ \E st \in [S -> {"ok", "undecodable", "too_large"}] :
                disk = [n \in S \cup others |->
                           IF n \in S THEN BatchTile(st[n]) ELSE BatchTile("undecodable")]
    /\ fs_input = "dir"
    /\ bt_files = <<>> /\ bt_i = 0 /\ bt_log = {} /\ bt_run = 1 /\ bt_first = {}
    /\ bt_pc = "start"
    /\ entry \in {"airbrush_main", "run_all"} /\ status = "none" /\ created = {}
    /\ IdleParse /\ IdleLocate /\ IdleSlice /\ IdleStitch /\ IdleBrush /\ IdleRun /\ IdleProxy

NextBatch == BatchStart \/ BatchStep \/ BatchAgain

SpecBatch == InitBatch /\ [][NextBatch]_vars

\* The files of the list the loop has been through.
Processed == {bt_files[k] : k \in 1..(bt_i - 1)}

\* What the loop owes for the files it has been through.
BatchPrefixDone ==
    /\ bt_i <= Len(bt_files) + 1
    /\ \A f \in Processed :
          IF disk[f].status = "ok"
          THEN /\ f \notin bt_log
               /\ OutBrushed(f) \in DOMAIN disk /\ OutMask(f) \in DOMAIN disk
          ELSE /\ f \in bt_log
               /\ OutBrushed(f) \notin DOMAIN disk
    /\ bt_log \subseteq Processed

\* C15: every file of the batch that cannot be decoded, or that raises, is
\* logged and gets no _brushed file, wherever it stands in the list; every
\* decodable file gets its _brushed file; and the loop reaches its end: while
\* it runs there is a next file, every turn moves on to the file after it
\* whatever happened to this one, and the turn for the last file ends the loop.
C15_BatchContinues ==
    /\ [](bt_pc \in {"loop", "done"} => BatchPrefixDone)
    /\ [](bt_pc = "loop" => bt_i <= Len(bt_files))
    /\ [](bt_pc = "done" => bt_i = Len(bt_files) + 1)
    /\ [][bt_pc = "loop" =>
            /\ bt_i' = bt_i + 1
            /\ bt_pc' = (IF bt_i = Len(bt_files) THEN "done" ELSE "loop")]_vars

\* A first run that ended with a file that failed in first place logged and the
\* decodable file after it brushed.
C15_Witness ==
    /\ bt_pc = "done" /\ bt_run = 1 /\ Len(bt_files) = 2
    /\ disk[bt_files[1]].status # "ok"
    /\ disk[bt_files[2]].status = "ok"
    /\ OutBrushed(bt_files[2]) \in DOMAIN disk
    /\ bt_log = {bt_files[1]}

\* C16: when the second run of main over the directory has ended, the directory
\* holds the files it held after the first run, and no other.
C16_RerunAddsNothing ==
    (bt_run = 2 /\ bt_pc = "done") => DOMAIN disk = bt_first

----------------------------------------------------------------------------
(* Specification SpecRerun: the stitch command run on a directory of        *)
(* brushed tiles, and run again on the same directory with the same options *)

\* The options of the runs: the defaults, with or without a tile size, and
\* --output-name out.png.
RerunOptions == {o \in StitchOptions : o.background = "none"}

InitRerun ==
    /\ \E S \in SUBSET StitchPool, dims \in TileDims :
          /\ Cardinality(S) >= 1 /\ Cardinality(S) <= MaxTiles
          /\ listing = S
          /\ \E defect \in Defects(S) : disk = [n \in S |-> TileFile(n, dims, defect)]
    /\ caller = "main"
    /\ opts \in RerunOptions
    /\ files = <<>> /\ layout = NoLayout /\ strategy = "none" /\ lpc = "start"
    /\ IdleParse /\ IdleSlice
    /\ st_call = NoOpts /\ tile_w = 0 /\ tile_h = 0
    /\ canvas = NoImage /\ st_i = 0 /\ failed = {} /\ saved = NoImage
    /\ st_pc = "idle"
    /\ IdleBrush /\ IdleBatch /\ IdleRun /\ IdleProxy /\ IdleEntry

\* The command is started again once it has saved its composite.
MainAgain ==
    /\ st_pc = "saved" /\ caller = "main" /\ run = 1
    /\ first_run' = [files |-> files, strategy |-> strategy, layout |-> layout,
                     saved |-> saved]
    /\ run' = 2
    /\ files' = <<>> /\ layout' = NoLayout /\ strategy' = "none" /\ lpc' = "start"
    /\ st_call' = NoOpts /\ tile_w' = 0 /\ tile_h' = 0
    /\ canvas' = NoImage /\ st_i' = 0 /\ failed' = {} /\ saved' = NoImage
    /\ st_pc' = "idle"
    /\ UNCHANGED <<listing, caller, opts, disk,
                   varsParse, varsSlice, varsAirbrush, varsEntry, varsProxy>>

NextRerun ==
    \/ MainFindImages \/ MainArrange
    \/ StitchCall \/ StitchBegin \/ StitchPaste \/ StitchSave
    \/ MainAgain

SpecRerun == InitRerun /\ [][NextRerun]_vars

\* C17: the second run of the command on the directory, with the options of
\* the first, selects the files the first run selected, the composite of the
\* first run not among them, locates them by the same strategy in the same
\* layout, and saves the same composite.
C17_RerunSameComposite ==
    /\ (run = 2 /\ lpc \in {"found", "located"}) =>
          /\ files = first_run.files
          /\ OutputName(opts) \notin SeqRange(files)
    /\ (run = 2 /\ lpc = "located") =>
          /\ strategy = first_run.strategy
          /\ layout = first_run.layout
    /\ (run = 2 /\ st_pc = "saved") => saved = first_run.saved

----------------------------------------------------------------------------
(* Specification SpecEntry: every entry point called when its input is      *)
(* missing: the input directory is missing or is a file, the tile of        *)
(* run_single is not in the directory, the source image of the slicer is    *)
(* missing                                                                  *)

\* The directories the tiles may be in.
EntryDirs ==
    UNION {{[n \in S |-> BatchTile(st[n])] : st \in [S -> {"ok", "undecodable", "too_large"}]} :
           S \in {T \in SUBSET BatchPool : Cardinality(T) <= MaxBatch}}

InitEntry ==
    /\ entry \in {"stitch_main", "airbrush_main", "run_all", "run_single", "slicer_main"}
    /\ fs_input \in {"missing", "file", "dir"}
    /\ entry \in {"stitch_main", "airbrush_main", "run_all"} => fs_input # "dir"
    /\ disk \in IF fs_input = "dir" THEN EntryDirs ELSE {<<>>}
    /\ status = "none" /\ created = {}
    /\ IdleParse
    /\ listing = DOMAIN disk /\ caller = "main" /\ files = <<>>
    /\ layout = NoLayout /\ strategy = "none"
    /\ lpc = IF entry = "stitch_main" THEN "entry" ELSE "idle"
    /\ opts \in IF entry = "stitch_main" THEN StitchOptions ELSE {NoOpts}
    /\ st_call = NoOpts /\ tile_w = 0 /\ tile_h = 0
    /\ canvas = NoImage /\ st_i = 0 /\ failed = {} /\ saved = NoImage
    /\ st_pc = "idle"
    /\ src = NoImage /\ chunk_size = 0 /\ row = 0 /\ col = 0 /\ written = <<>>
    /\ spc = IF entry = "slicer_main" THEN "entry" ELSE "idle"
    /\ ab_path = (IF entry = "run_single" THEN Str_7_7 ELSE <<>>)
    /\ ab_img = NoImage /\ ab_raw = NoImage /\ ab_mask = NoImage /\ ab_ret = "none"
    /\ ab_pc = IF entry = "run_single" THEN "entry" ELSE "idle"
    /\ save_debug \in (IF entry = "run_single" THEN BOOLEAN ELSE {FALSE})
    /\ ab_green = None /\ ab_filled = NoImage /\ ab_blended = NoImage
    /\ bt_files = <<>> /\ bt_i = 0 /\ bt_log = {} /\ bt_first = {}
    /\ bt_run = (IF entry \in {"airbrush_main", "run_all"} THEN 1 ELSE 0)
    /\ bt_pc = IF entry \in {"airbrush_main", "run_all"} THEN "start" ELSE "idle"
    /\ IdleRun /\ IdleProxy

NextEntry == MainEntry \/ BatchStart \/ RunSingle \/ SlicerMain

SpecEntry == InitEntry /\ [][NextEntry]_vars

\* C18: an entry point that has returned from a call with its input missing has
\* given its caller a status other than success, and has created neither a
\* directory nor a file.
C18_MissingInputFatal ==
    status # "none" =>
        /\ status \notin {"0", "None"}
        /\ created = {}
        /\ fs_input \in {"missing", "file"} => disk = <<>>
        /\ \A n \in DOMAIN disk : n \in BatchPool

----------------------------------------------------------------------------
(* The output directory and the failures of slice_image                    *)

\* C19: when slice_image has completed, the output directory holds the tiles
\* this call wrote and nothing else: what was there before is gone.
C19_OutputCleared ==
    spc = "done" => DOMAIN disk = SeqRange(written)

\* C20: a source that cannot be decoded makes slice_image raise to its caller,
\* with no tile written.
C20_UndecodableRaises ==
    (src # NoImage /\ src.status # "ok" /\ spc \notin {"idle", "start"}) =>
        /\ spc = "raised"
        /\ written = <<>>

\* C21: for a chunk size of zero or below, slice_image ends by reporting a
\* failure (it raises, before the image is opened and before a tile is
\* written); it never completes normally with zero tiles written, and it never
\* gets as far as a failed open.
C21_NonPositiveChunkFailsFast ==
    (src # NoImage /\ chunk_size <= 0 /\ spc \notin {"idle", "start"}) =>
        /\ spc = "raised"
        /\ src.status = "ok"

----------------------------------------------------------------------------
(* Specification SpecPipeline: slice_image into an empty directory, then    *)
(* auto_airbrush.main over that directory, once or twice, then the          *)
(* discovery and the primary strategy of the stitch command                 *)

MaxPipeW == 2
MaxPipeH == 3
MaxPipeChunk == 2

\* The colour a pixel value of the sliced source stands for, as cv2 reads it
\* (blue, green, red): the padding value 0 is black, every other value is a
\* green of its own.
BgrOfValue(c) == IF c = 0 THEN <<0, 0, 0>> ELSE <<0, 100 + c, 0>>

\* A PNG written by slice_image (line 88), in the notation of the cv2 steps:
\* the same width, height and pixels, three or four channels.
PngOfSlicer(file) ==
    IF "mode" \notin DOMAIN file.img THEN file
    ELSE [status |-> file.status,
          img |-> [w |-> file.img.w, h |-> file.img.h,
                   ch |-> IF file.img.mode = "RGBA" THEN 4 ELSE 3,
                   px |-> [p \in Positions(file.img.w, file.img.h) |->
                              [b |-> BgrOfValue(file.img.px[p].c)[1],
                               g |-> BgrOfValue(file.img.px[p].c)[2],
                               r |-> BgrOfValue(file.img.px[p].c)[3],
                               a |-> file.img.px[p].a]]]]

InitPipeline ==
    /\ src \in {[status |-> "ok", img |-> SourceImage(w, h, m)] :
                   w \in 1..MaxPipeW, h \in 1..MaxPipeH, m \in {"RGB", "RGBA"}}
    /\ chunk_size \in 1..MaxPipeChunk
    /\ row = 0 /\ col = 0 /\ written = <<>> /\ spc = "start"
    /\ disk = <<>>
    /\ listing = {} /\ caller = "main" /\ files = <<>>
    /\ layout = NoLayout /\ strategy = "none" /\ lpc = "idle"
    /\ IdleParse /\ IdleStitch /\ IdleBrush /\ IdleBatch /\ IdleRun /\ IdleProxy /\ IdleEntry

\* auto_airbrush.main is started on the directory slice_image has filled.
PipelineAirbrush ==
    /\ spc = "done" /\ bt_pc = "idle"
    /\ disk' = [n \in DOMAIN disk |-> PngOfSlicer(disk[n])]
    /\ bt_run' = 1
    /\ bt_pc' = "start"
    /\ UNCHANGED <<bt_files, bt_i, bt_log, bt_first, varsBrush, varsEntry,
                   varsParse, varsLocate, varsSlice, varsStitch, varsRun, varsProxy>>

\* auto_airbrush.main is run once more before the tiles are stitched.
PipelineAirbrushAgain == lpc = "idle" /\ BatchAgain

\* The stitch command is started on the directory: glob.glob lists it
\* (lines 49-52).
PipelineStitch ==
    /\ bt_pc = "done" /\ lpc = "idle"
    /\ listing' = DOMAIN disk
    /\ lpc' = "start"
    /\ UNCHANGED <<caller, files, layout, strategy, disk, varsParse, varsSlice,
                   varsStitch, varsAirbrush, varsRun, varsProxy, varsEntry>>

NextPipeline ==
    \/ SliceBegin \/ SliceTile
    \/ PipelineAirbrush \/ BatchStart \/ BatchStep \/ PipelineAirbrushAgain
    \/ PipelineStitch \/ MainFindImages \/ MainArrange

SpecPipeline == InitPipeline /\ [][NextPipeline]_vars

\* {r}_{c}<suffix>.png
SuffixedTileName(r, c, suffix) ==
    PyStr(r) \o <<"_">> \o PyStr(c) \o suffix \o Str_png

\* The (row, col) pairs of the grid slice_image wrote.
PipelineGrid ==
    (0..(CeilOf(src.img.h, chunk_size) - 1)) \X (0..(CeilOf(src.img.w, chunk_size) - 1))

----------------------------------------------------------------------------
(* The files process_image_file writes, with and without the debug flag    *)

\* C23: when process_image_file has returned True for a decoded tile, the
\* directory holds {base}_inpainted.png and {base}_mask.png if the debug flag
\* was set, tiles without a detected region included, and holds neither of
\* them if it was not.
C23_DebugFilesFollowFlag ==
    (ab_pc = "done" /\ ab_ret = "True") =>
        /\ OutBrushed(ab_path) \in DOMAIN disk
        /\ (OutInpainted(ab_path) \in DOMAIN disk) = save_debug
        /\ (OutMask(ab_path) \in DOMAIN disk) = save_debug

----------------------------------------------------------------------------
(* The shape of the fallback grid                                          *)

\* The exact factorizations <<rows, cols>> of n.
Factorizations(n) == {rc \in (1..n) \X (1..n) : rc[1] * rc[2] = n}

\* C24: for n >= 1 files fallback_grid takes rows * cols = n with cols >= rows
\* and cols - rows the least among the exact factorizations of n with
\* cols >= rows.
C24_MostSquareWide ==
    (lpc = "located" /\ strategy = "grid" /\ Len(files) >= 1) =>
        LET cols == layout.max_x + 1
            rows == layout.max_y + 1
        IN  /\ rows * cols = Len(files)
            /\ cols >= rows
            /\ \A rc \in Factorizations(Len(files)) :
                  rc[2] >= rc[1] => cols - rows <= rc[2] - rc[1]

\* math.ceil(math.sqrt(n))
CeilSqrt(n) == IF IntSqrt(n) * IntSqrt(n) = n THEN IntSqrt(n) ELSE IntSqrt(n) + 1

\* The exact divisors of n from 1 up to last.
DivisorsUpTo(n, last) == {d \in 1..last : n % d = 0}

\* C25: for n >= 1 files the row count of fallback_grid is the largest exact
\* divisor of n among 1 .. floor(sqrt(n)) + 1, the column count is n divided by
\* it, and the search always finds a divisor: the ceiling-square default is
\* not used.
C25_LastDivisorFloorSqrt ==
    (lpc = "located" /\ strategy = "grid" /\ Len(files) >= 1) =>
        LET n == Len(files)
            found == DivisorsUpTo(n, IntSqrt(n) + 1)
        IN  /\ found # {}
            /\ BestFrom(n, 1, IntSqrt(n) + 1, None) # None
            /\ layout.max_y + 1 = SetMax(found)
            /\ layout.max_x + 1 = n \div SetMax(found)

\* C25 as stated: the largest exact divisor of n among 1 .. ceil(sqrt(n)) + 1.
C25_LastDivisorCeilSqrt ==
    (lpc = "located" /\ strategy = "grid" /\ Len(files) >= 1) =>
        LET n == Len(files)
            found == DivisorsUpTo(n, CeilSqrt(n) + 1)
        IN  /\ found # {}
            /\ layout.max_y + 1 = SetMax(found)
            /\ layout.max_x + 1 = n \div SetMax(found)

\* fallback_grid has laid out four files: the divisors 1 and 2 were found up to
\* 3, and 2 was kept.
C25_Witness ==
    /\ lpc = "located" /\ strategy = "grid" /\ caller = "direct"
    /\ Len(files) = 4
    /\ DivisorsUpTo(4, IntSqrt(4) + 1) = {1, 2}
    /\ layout.max_y = 1 /\ layout.max_x = 1

----------------------------------------------------------------------------
(* The tint blend of process_image_file: the mean green, and                *)
(* alpha * green + (1 - alpha) * inpainted in float64, cast to uint8         *)

\* The H channel for 8-bit images, 0..179: the conversion's fixed-point
\* arithmetic (a table of round(180 * 2^12 / (6 * diff)), 12 bits dropped after
\* rounding, 180 added to a negative result), 0 for a gray pixel.
HsvHue(bgr) ==
    LET v == HsvValue(bgr)
        diff == v - Min3(bgr[1], bgr[2], bgr[3])
        hdiv == (2 * 122880 + diff) \div (2 * diff)
        raw == IF v = bgr[3] THEN bgr[2] - bgr[1]
               ELSE IF v = bgr[2] THEN bgr[1] - bgr[3] + 2 * diff
               ELSE bgr[3] - bgr[2] + 4 * diff
        h == (raw * hdiv + 2048) \div 4096
    IN  IF diff = 0 THEN 0 ELSE IF h < 0 THEN h + 180 ELSE h

\* Lines 86-87: int(35 / 2) and int(85 / 2).
GREEN_H_MIN == 17
GREEN_H_MAX == 42

\* Line 88 for one pixel.
GreenLike(bgr) ==
    /\ HsvHue(bgr) >= GREEN_H_MIN /\ HsvHue(bgr) <= GREEN_H_MAX
    /\ HsvSaturation(bgr) >= 80 /\ HsvValue(bgr) >= 60

RECURSIVE SumChannel(_, _, _)
SumChannel(img, k, S) ==
    IF S = {} THEN 0
    ELSE LET p == CHOOSE q \in S : TRUE
         IN  img.px[p][k] + SumChannel(img, k, S \ {p})

\* int(np.mean(channel k over the pixels S)): the mean of integers over at most
\* a few pixels is computed exactly, int() drops the fraction.
MeanChannel(img, k, S) == SumChannel(img, k, S) \div Cardinality(S)

\* compute_mean_green(img_bgr, None): the mean colour of the green-like pixels,
\* of all pixels when there is none.
compute_mean_green(img) ==
    LET all == Positions(img.w, img.h)
        combined == {p \in all : GreenLike(img.px[p])}
        S == IF combined # {} THEN combined ELSE all
    IN  <<MeanChannel(img, 1, S), MeanChannel(img, 2, S), MeanChannel(img, 3, S)>>

\* A float64 below 1024 is held as its value times 2^53, a natural number below
\* 2^75, in five limbs of 15 bits, the least significant first.
Limb == 32768

\* The limbs after the carries.
BigNorm(x) ==
    LET t2 == x[2] + x[1] \div Limb
        t3 == x[3] + t2 \div Limb
        t4 == x[4] + t3 \div Limb
        t5 == x[5] + t4 \div Limb
    IN  <<x[1] % Limb, t2 % Limb, t3 % Limb, t4 % Limb, t5>>

BigMulSmall(X, k) == BigNorm([i \in 1..5 |-> X[i] * k])

BigAdd(X, Y) == BigNorm([i \in 1..5 |-> X[i] + Y[i]])

BitLen(n) == IF n = 0 THEN 0 ELSE CHOOSE b \in 1..15 : 2^(b - 1) <= n /\ n < 2^b

BigBitLen(X) ==
    IF \A i \in 1..5 : X[i] = 0 THEN 0
    ELSE LET top == CHOOSE i \in 1..5 : X[i] # 0 /\ \A j \in (i + 1)..5 : X[j] = 0
         IN  15 * (top - 1) + BitLen(X[top])

\* The result of a float64 operation: the exact result rounded to 53
\* significant bits, to nearest, ties to even.
RoundToDouble(X) ==
    LET m == BigBitLen(X) - 53
    IN  IF m <= 0 THEN X
        ELSE LET unit == 2^m
                 r == X[1] % unit
                 odd == (X[1] \div unit) % 2 = 1
                 down == [X EXCEPT ![1] = X[1] - r]
             IN  IF 2 * r > unit \/ (2 * r = unit /\ odd)
                 THEN BigNorm([down EXCEPT ![1] = down[1] + unit])
                 ELSE down

\* .astype(np.uint8) of a float64 in 0 .. 255: the fraction is dropped.
TruncToInt(X) == X[4] \div 256 + X[5] * 128

\* BLEND_ALPHA = 0.55 as a float64: 4953959590107546 / 2^53.
BLEND_ALPHA == <<6554, 13107, 26214, 140, 0>>

\* 1 - alpha in float64, an exact difference: 4053239664633446 / 2^53.
OneMinusAlpha == <<26214, 19660, 6553, 115, 0>>

\* Line 166 for one channel of one pixel:
\* (alpha * green + (1 - alpha) * inpainted).astype(np.uint8)
BlendChannel(green, filled) ==
    TruncToInt(RoundToDouble(BigAdd(RoundToDouble(BigMulSmall(BLEND_ALPHA, green)),
                                    RoundToDouble(BigMulSmall(OneMinusAlpha, filled)))))

\* The blend with the mean green of the inpainted image instead of the
\* original's.
BlendFromFilled(orig, filled, mask) ==
    [w |-> filled.w, h |-> filled.h,
     px |-> [p \in Positions(filled.w, filled.h) |->
                IF mask.px[p] # 0
                THEN [k \in 1..3 |->
                         BlendChannel(compute_mean_green(filled)[k], filled.px[p][k])]
                ELSE filled.px[p]]]

\* Lines 151-166: blended is the inpainted image with every pixel of the mask
\* blended towards the mean green of the original tile.
Blend(orig, filled, mask) ==
    [w |-> filled.w, h |-> filled.h,
     px |-> [p \in Positions(filled.w, filled.h) |->
                IF mask.px[p] # 0
                THEN [k \in 1..3 |->
                         BlendChannel(compute_mean_green(orig)[k], filled.px[p][k])]
                ELSE filled.px[p]]]

\* Colours cv2.inpaint may give a pixel of the mask.
InpaintColours == {<<60, 160, 60>>, <<255, 255, 255>>}

\* Line 148: cv2.inpaint leaves the pixels outside the mask as they are and
\* fills the pixels of the mask; its values are not computed here, every
\* filling over InpaintColours is taken.
InpaintResults(img, mask) ==
    LET masked == {p \in Positions(img.w, img.h) : mask.px[p] # 0}
    IN  {[w |-> img.w, h |-> img.h,
          px |-> [p \in Positions(img.w, img.h) |->
                     IF p \in masked THEN fill[p] ELSE img.px[p]]] :
            fill \in [masked -> InpaintColours]}

----------------------------------------------------------------------------
(* Specification SpecBlend: process_image_file step by step on one-row      *)
(* tiles, the inpainting and the blend included                             *)

MaxBlendW == 5

YellowGreen == [b |-> 0, g |-> 255, r |-> 160, a |-> Opaque]

\* One-row tiles of mid-gray, green and yellow-green pixels.
BlendTiles ==
    UNION {{[w |-> w, h |-> 1, ch |-> 3, px |-> colour] :
               colour \in [Positions(w, 1) -> {MidGray, PureGreen, YellowGreen}]} :
           w \in 1..MaxBlendW}

InitBlend ==
    /\ ab_path = Str_7_7
    /\ \E t \in BlendTiles : disk = [n \in {ab_path} |-> [status |-> "ok", img |-> t]]
    /\ ab_img = NoImage /\ ab_raw = NoImage /\ ab_mask = NoImage
    /\ ab_ret = "none" /\ ab_pc = "start"
    /\ save_debug \in BOOLEAN
    /\ ab_green = None /\ ab_filled = NoImage /\ ab_blended = NoImage
    /\ entry = "run_single" /\ fs_input = "dir" /\ status = "none" /\ created = {}
    /\ IdleParse /\ IdleLocate /\ IdleSlice /\ IdleStitch
    /\ IdleBatch /\ IdleRun /\ IdleProxy

\* Lines 139-145: nothing was detected.
AbCopy == ab_pc = "refined" /\ CountNonZero(ab_mask) = 0 /\ AbWrite

\* Line 148.
AbInpaint ==
    /\ ab_pc = "refined" /\ CountNonZero(ab_mask) # 0
    /\ ab_filled' \in InpaintResults(ab_img, ab_mask)
    /\ ab_pc' = "inpainted"
    /\ UNCHANGED <<ab_path, ab_img, ab_raw, ab_mask, ab_ret, save_debug, ab_green,
                   ab_blended, disk,
                   varsParse, varsLocate, varsSlice, varsStitch, varsBatch, varsRun, varsProxy, varsEntry>>

\* Lines 151-166.
AbBlend ==
    /\ ab_pc = "inpainted"
    /\ ab_green' = compute_mean_green(ab_img)
    /\ ab_blended' = Blend(ab_img, ab_filled, ab_mask)
    /\ ab_pc' = "blended"
    /\ UNCHANGED <<ab_path, ab_img, ab_raw, ab_mask, ab_ret, save_debug, ab_filled, disk,
                   varsParse, varsLocate, varsSlice, varsStitch, varsBatch, varsRun, varsProxy, varsEntry>>

\* Lines 169-179: the smoothing pass and the files.  The values of
\* cv2.GaussianBlur are not computed: every pixel written is the term naming it.
AbSmoothWrite ==
    /\ ab_pc = "blended"
    /\ LET result == WriteFile(WriteFile(disk, OutBrushed(ab_path),
                                         BgrFile(Airbrushed(ab_img, ab_mask))),
                               OutMask(ab_path), MaskFile(ab_mask))
       IN  disk' = IF save_debug
                   THEN WriteFile(result, OutInpainted(ab_path), BgrFile(ab_filled))
                   ELSE result
    /\ ab_ret' = "True"
    /\ ab_pc' = "done"
    /\ UNCHANGED <<ab_path, ab_img, ab_raw, ab_mask, save_debug, ab_green, ab_filled,
                   ab_blended,
                   varsParse, varsLocate, varsSlice, varsStitch, varsBatch, varsRun, varsProxy, varsEntry>>

NextBlend ==
    \/ AbRead \/ AbClassify \/ AbRefine \/ AbCopy
    \/ AbInpaint \/ AbBlend \/ AbSmoothWrite \/ RunSingleReturn

SpecBlend == InitBlend /\ [][NextBlend]_vars

\* The pixels of the mask, and the exact value of the blend of one channel:
\* floor((11 * green + 9 * filled) / 20).
BlendPixels == {p \in Positions(ab_img.w, ab_img.h) : ab_mask.px[p] # 0}

ExactBlend(green, filled) == (11 * green + 9 * filled) \div 20

\* The parts of C26 that do not depend on the arithmetic: the green is the mean
\* green of the original tile, every result is in 0 .. 255, and a pixel outside
\* the mask has the value of the inpainted image, which is the original's.
BlendFrame ==
    /\ ab_green = compute_mean_green(ImreadColor(disk[ab_path]))
    /\ \A p \in Positions(ab_img.w, ab_img.h) :
          /\ \A k \in 1..3 : ab_blended.px[p][k] \in 0..255
          /\ p \notin BlendPixels =>
                /\ ab_blended.px[p] = ab_filled.px[p]
                /\ ab_filled.px[p] = ab_img.px[p]

\* C26: before the smoothing pass every pixel of the refined mask has in each
\* channel the float64 value of alpha * green + (1 - alpha) * inpainted with
\* the fraction dropped, where alpha = 0.55 and green is the mean green of the
\* original tile: this is floor((11 * green + 9 * inpainted) / 20), or one less
\* than it when 11 * green + 9 * inpainted is a multiple of 20 (never otherwise);
\* it is in 0 .. 255; every pixel outside the mask has the inpainted image's
\* value.
C26_BlendInFloat64 ==
    ab_pc \in {"blended", "done"} /\ ab_blended # NoImage =>
        /\ BlendFrame
        /\ \A p \in BlendPixels : \A k \in 1..3 :
              LET exact == ExactBlend(ab_green[k], ab_filled.px[p][k])
                  got == ab_blended.px[p][k]
              IN  /\ got \in {exact, exact - 1}
                  /\ (11 * ab_green[k] + 9 * ab_filled.px[p][k]) % 20 # 0 => got = exact
                  /\ (ab_green[k] = 0 /\ ab_filled.px[p][k] = 60) => got = 26
                  /\ (ab_green[k] = 255 /\ ab_filled.px[p][k] = 255) => got = 255

\* C26 as stated, in exact arithmetic: every channel of every pixel of the mask
\* is floor(0.55 * green + 0.45 * inpainted).
C26_BlendExact ==
    ab_pc \in {"blended", "done"} /\ ab_blended # NoImage =>
        /\ BlendFrame
        /\ \A p \in BlendPixels : \A k \in 1..3 :
              ab_blended.px[p][k] = ExactBlend(ab_green[k], ab_filled.px[p][k])

\* A blended five-pixel tile with a pixel outside the mask, whose mean green is
\* that of its yellow-green pixels, and a pixel of the mask blended from
\* (60, 160, 60) to (26, 212, 115).
C26_Witness ==
    /\ ab_pc = "blended" /\ ab_img.w = 5
    /\ ab_green = <<0, 255, 160>>
    /\ \E p \in Positions(5, 1) : p \notin BlendPixels
    /\ \E p \in BlendPixels :
          ab_filled.px[p] = <<60, 160, 60>> /\ ab_blended.px[p] = <<26, 212, 115>>

----------------------------------------------------------------------------
(* Specification SpecOrder: one run of auto_airbrush.main over a directory  *)
(* whose files share base names, in every order os.listdir may give         *)

Str_jpg == <<".", "j", "p", "g">>

\* 0_0.jpg
Str_0_0_jpg == PyStr(0) \o <<"_">> \o PyStr(0) \o Str_jpg

\* The files a directory of the run may hold, each with its colour: 0_0.png
\* and 0_0.jpg with the same base name, 0_1.png, and 0_0_brushed.png left by
\* an earlier run.
OrderPool ==
    {<<TileFilename(0, 0), PureGreen>>, <<Str_0_0_jpg, YellowGreen>>,
     <<TileFilename(0, 1), PureGreen>>,
     <<OutBrushed(TileFilename(0, 0)), [b |-> 0, g |-> 100, r |-> 0, a |-> Opaque]>>}

\* The directory that holds the files named in S.
OrderDir(S) ==
    [n \in S |->
        [status |-> "ok",
         img |-> [w |-> 1, h |-> 1, ch |-> 3,
                  px |-> [p \in Positions(1, 1) |->
                             (CHOOSE e \in OrderPool : e[1] = n)[2]]]]]

InitOrder ==
    /\ \E S \in SUBSET {e[1] : e \in OrderPool} : disk = OrderDir(S)
    /\ fs_input = "dir"
    /\ bt_files = <<>> /\ bt_i = 0 /\ bt_log = {} /\ bt_run = 1 /\ bt_first = {}
    /\ bt_pc = "start"
    /\ entry = "airbrush_main" /\ status = "none" /\ created = {}
    /\ IdleParse /\ IdleLocate /\ IdleSlice /\ IdleStitch /\ IdleBrush /\ IdleRun /\ IdleProxy

NextOrder == BatchStart \/ BatchStep

SpecOrder == InitOrder /\ [][NextOrder]_vars

\* The directory after process_image_file on order[i], order[i+1], ...
RECURSIVE ProcessFrom(_, _, _)
ProcessFrom(d, order, i) ==
    IF i > Len(order) THEN d
    ELSE ProcessFrom(process_image_file(d, order[i]).dir, order, i + 1)

\* C27: the files of a batch have pairwise distinct output names, none of
\* which is a file of the batch, and when the loop has ended the directory is
\* the one that processing the files in sorted order gives: the order of the
\* list does not matter.
C27_OrderIndependent ==
    bt_pc = "done" =>
        LET batch == SeqRange(bt_files)
        IN  /\ \A f \in batch, g \in batch :
                  f # g => /\ OutBrushed(f) # OutBrushed(g)
                           /\ OutMask(f) # OutMask(g)
            /\ \A f \in batch : OutBrushed(f) \notin batch /\ OutMask(f) \notin batch
            /\ disk = ProcessFrom(OrderDir(batch), Sorted(batch), 1)

----------------------------------------------------------------------------
(* The files the primary strategy keeps                                    *)

\* C28: when arrange_by_coords succeeds, distinct files have distinct
\* (col, row) positions, the layout has as many entries as there are files, and
\* every file is an entry of the layout, the entries being what stitch pastes.
C28_NoFileDropped ==
    (caller = "main" /\ lpc = "located" /\ strategy = "coords") =>
        /\ \A i \in 1..Len(files), j \in 1..Len(files) :
              i # j => RowColOf(files[i]) # RowColOf(files[j])
        /\ Len(layout.mapping) = Len(files)
        /\ \A i \in 1..Len(files) :
              \E k \in 1..Len(layout.mapping) : layout.mapping[k][2] = files[i]

----------------------------------------------------------------------------
(* The pipeline with auto_airbrush.main run more than once                 *)

\* C29: after one slice and one or more runs of auto_airbrush.main, the stitch
\* command locates by coordinates and puts at every (col, row) of the grid the
\* file {row}_{col}_brushed.png, the brushed version of the sliced tile, and
\* its layout has no other entry.
C29_BrushedTileAtEachPosition ==
    (bt_run >= 1 /\ lpc = "located") =>
        /\ strategy = "coords"
        /\ DictKeys(layout.mapping) = {<<rc[2], rc[1]>> : rc \in PipelineGrid}
        /\ \A rc \in PipelineGrid :
              DictGet(layout.mapping, <<rc[2], rc[1]>>) =
                  SuffixedTileName(rc[1], rc[2], BrushedSuffix)

----------------------------------------------------------------------------
(* Specification SpecProxy: the /chart handler of proxy/server.py, one      *)
(* request, the upstream server answering as it likes                       *)

\* Line 37: while attempts < 3.
MaxAttempts == 3

\* What request.args.get gives for a required parameter: None, "", a value.
ArgValues == {"None", "", "x", "y"}

\* Line 18: not symbol or not period1 or not period2.
MissingParams(args) == \E i \in 1..3 : args[i] \in {"None", ""}

\* What one requests.get can come to: a response, or requests.RequestException.
UpstreamOutcomes ==
    {[kind |-> "response", status_code |-> 200, content |-> "chart"],
     [kind |-> "response", status_code |-> 404, content |-> "not found"],
     [kind |-> "response", status_code |-> 429, content |-> "too many requests"],
     [kind |-> "response", status_code |-> 500, content |-> "error"],
     [kind |-> "exception", status_code |-> 0, content |-> ""]}

\* flask.Response(content, status=status): a status of None gives the default
\* status 200, content of None an empty body.
FlaskResponse(content, status_code) ==
    [kind |-> "answer",
     status_code |-> IF status_code = NoResponse.status_code THEN 200 ELSE status_code,
     content |-> content]

InitProxy ==
    /\ px_args \in [1..3 -> ArgValues]
    /\ attempts = 0 /\ last_r = NoResponse /\ px_sent = <<>>
    /\ px_resp = NoResponse /\ px_pc = "start"
    /\ IdleParse /\ IdleLocate /\ IdleSlice /\ disk = <<>> /\ IdleStitch
    /\ IdleBrush /\ IdleBatch /\ IdleRun /\ IdleEntry

\* Lines 11-36: the parameters are read; 400 when a required one is missing.
ChartBegin ==
    /\ px_pc = "start"
    /\ IF MissingParams(px_args)
       THEN /\ px_resp' = FlaskResponse("Missing required params", 400)
            /\ px_pc' = "done"
       ELSE px_pc' = "loop" /\ UNCHANGED px_resp
    /\ attempts' = 0 /\ last_r' = NoResponse
    /\ UNCHANGED <<px_args, px_sent, disk, varsParse, varsLocate, varsSlice, varsStitch,
                   varsAirbrush, varsRun, varsEntry>>

\* Lines 37-48: one turn of the loop.  A response is kept in last_r and ends
\* the loop unless its status is 429; an exception leaves last_r as it is.
ChartAttempt ==
    /\ px_pc = "loop" /\ attempts < MaxAttempts
    /\ attempts' = attempts + 1
    /\ \E r \in UpstreamOutcomes :
          /\ px_sent' = Append(px_sent, r)
          /\ IF r.kind = "exception"
             THEN UNCHANGED <<last_r, px_pc>>
             ELSE /\ last_r' = r
                  /\ px_pc' = IF r.status_code # 429 THEN "answer" ELSE "loop"
    /\ UNCHANGED <<px_args, px_resp, disk, varsParse, varsLocate, varsSlice, varsStitch,
                   varsAirbrush, varsRun, varsEntry>>

\* Lines 49-55: after the break, or after the last attempt, the answer is made
\* of last_r, or of an empty requests.Response() when last_r is None.
ChartAnswer ==
    /\ px_pc = "answer" \/ (px_pc = "loop" /\ attempts >= MaxAttempts)
    /\ px_resp' = FlaskResponse(last_r.content, last_r.status_code)
    /\ px_pc' = "done"
    /\ UNCHANGED <<px_args, attempts, last_r, px_sent, disk, varsParse, varsLocate,
                   varsSlice, varsStitch, varsAirbrush, varsRun, varsEntry>>

NextProxy == ChartBegin \/ ChartAttempt \/ ChartAnswer

SpecProxy == InitProxy /\ [][NextProxy]_vars

\* The indices of the upstream requests that got a response.
Responses == {k \in 1..Len(px_sent) : px_sent[k].kind = "response"}

\* C30: a request without symbol, period1 or period2 is answered 400 and no
\* upstream request is made; else the handler makes one to three upstream
\* requests, a further one only after a 429 or an exception, none after a
\* response other than 429, it never runs on after the third, and its answer
\* has the status and the body of the last upstream response it received.
C30_RetryBound ==
    /\ Len(px_sent) = attempts /\ attempts <= 3
    /\ \A k \in 1..(Len(px_sent) - 1) :
          px_sent[k].kind = "exception" \/ px_sent[k].status_code = 429
    /\ (px_pc = "loop" /\ attempts < 3) =>
          \A k \in 1..Len(px_sent) :
              px_sent[k].kind = "exception" \/ px_sent[k].status_code = 429
    /\ px_pc = "done" =>
          IF MissingParams(px_args)
          THEN px_resp.status_code = 400 /\ px_sent = <<>>
          ELSE /\ Len(px_sent) >= 1
               /\ Responses # {}
               /\ px_resp.status_code = px_sent[SetMax(Responses)].status_code
               /\ px_resp.content = px_sent[SetMax(Responses)].content

====
